---- MODULE Spec2Model ----
(***************************************************************************)
(* Stage-handoff pipeline of the YouTube channel summarizer.               *)
(*                                                                         *)
(* Five stage services (discovery, download, audio extraction,             *)
(* transcription, summarization) hand work items to each other through     *)
(* RabbitMQ queues and share one PostgreSQL table `videos`.  Every stage   *)
(* acknowledges a delivery at once and then runs the unit of work as a     *)
(* coroutine, so units of different stages (separate processes) interleave *)
(* freely.  Each unit owns one SQLAlchemy session: attribute writes stay   *)
(* pending in the session until session.commit(), a commit writes only the *)
(* attributes whose value differs from the one the session loaded, and     *)
(* after a commit or rollback the loaded attributes are expired.           *)
(*                                                                         *)
(* Every step of a unit that talks to the store, the broker, the event     *)
(* channels or an external collaborator is one action.  The Status Store   *)
(* is modelled as available (only the duplicate-key insert fails); the     *)
(* broker and the two event channels may fail, at most MaxFaults times.    *)
(***************************************************************************)
EXTENDS Integers, Sequences, FiniteSets, TLC

\* ---------------------------------------------------------------- bounds
MaxJobs == 1      \* discovery jobs submitted in one run
MaxLimit == 1     \* largest num_videos_to_process a job asks for
MaxFaults == 1    \* broker, store and event-channel faults injected in one run
MaxRuns == 2      \* discovery messages of one discovery process, run alone

\* The channel listing returned by get_video_entries, in listing order.
Entries == <<"v1">>
VideoIds == {Entries[i] : i \in 1..Len(Entries)}
Jobs == 1..MaxJobs
Runs == 1..MaxRuns

\* num_videos_to_process is None or a number
NoLimit == -1
LimitChoices == {NoLimit} \cup (0..MaxLimit)

\* ------------------------------------------------- statuses, stages, queues
PENDING == "PENDING"
DOWNLOADING == "DOWNLOADING"
DOWNLOADED == "DOWNLOADED"
AUDIO_EXTRACTING == "AUDIO_EXTRACTING"
AUDIO_EXTRACTED == "AUDIO_EXTRACTED"
TRANSCRIBING == "TRANSCRIBING"
TRANSCRIBED == "TRANSCRIBED"
SUMMARIZING == "SUMMARIZING"
COMPLETED == "COMPLETED"
FAILED == "FAILED"

Stages == {"download", "audio_extraction", "transcription", "summarization"}

\* ServiceTemplate.__init__: service type -> queue consumed
queue_map ==
  [s \in Stages |->
     CASE s = "download" -> "download_queue"
       [] s = "audio_extraction" -> "audio_extraction_queue"
       [] s = "transcription" -> "transcription_queue"
       [] s = "summarization" -> "summarization_queue"]

QueueNames == {queue_map[s] : s \in Stages}

NoQueue == "None"

\* ServiceTemplate._setup_mappings: _status_map
in_progress_status ==
  [s \in Stages |->
     CASE s = "download" -> DOWNLOADING
       [] s = "audio_extraction" -> AUDIO_EXTRACTING
       [] s = "transcription" -> TRANSCRIBING
       [] s = "summarization" -> SUMMARIZING]

completion_status ==
  [s \in Stages |->
     CASE s = "download" -> DOWNLOADED
       [] s = "audio_extraction" -> AUDIO_EXTRACTED
       [] s = "transcription" -> TRANSCRIBED
       [] s = "summarization" -> COMPLETED]

\* ServiceTemplate._setup_mappings: _next_queue_map
next_queue_map ==
  [s \in Stages |->
     CASE s = "download" -> "audio_extraction_queue"
       [] s = "audio_extraction" -> "transcription_queue"
       [] s = "transcription" -> "summarization_queue"
       [] s = "summarization" -> NoQueue]

\* ServiceTemplate._setup_mappings: _event_map
event_map ==
  [s \in Stages |->
     CASE s = "download" -> "VideoDownloaded"
       [] s = "audio_extraction" -> "AudioExtracted"
       [] s = "transcription" -> "TranscriptionCompleted"
       [] s = "summarization" -> "SummarizationCompleted"]

\* ------------------------------------------------------------ store rows
NoPath == "None"
Expired == "expired"
Unchanged == "-"

Video(st, vp, ap) ==
  [status |-> st, video_file_path |-> vp, audio_file_path |-> ap]

\* no row with this primary key
NoRow == Video("NO_ROW", NoPath, NoPath)
\* a session object whose attributes are expired (after commit / rollback)
ExpiredRow == Video(Expired, Expired, Expired)
\* a session with nothing to flush
NoPending == Video(Unchanged, Unchanged, Unchanged)

\* artifact paths are a function of the item, so one value per kind
VideoPath == "video_path"
AudioPath == "audio_path"

\* --------------------------------------------------------------- variables
VARIABLES
  db,        \* videos table: id -> row or NoRow
  queue,     \* stage queues: queue name -> id -> messages waiting
  disc,      \* discovery: job -> the job's message and its unit of work
  unit,      \* stage -> id -> the unit of work of that stage for that id
  impl,      \* stage -> "app" (services/<stage>/app.py) or "template"
  files,     \* id -> artifacts on the shared filesystem
  summaries, \* ids with a document in the MongoDB summaries collection
  eventLog,  \* events accepted: <<event type, id, channel>>
  sent,      \* history: queue name -> id -> messages ever accepted
  faults,    \* faults injected so far
  proc,      \* one stage process: its consume thread, callback and loop
  msg,       \* that stage's queue: delivery tag -> message at the broker
  task,      \* delivery tag -> the unit of work scheduled for the message
  rows,      \* delivery tag -> persisted status of the item of the message
  em,        \* a call of EventManager.publish_event
  call,      \* a call of a library function: its arguments and its result
  disk,      \* single-process program (main.py): the artifact files there are
  wrapper,   \* discovered video -> position of its process_video_wrapper
  config,    \* the Config of the current run of main
  tracker    \* ServiceAsyncProcessor: its loop, its task set and its futures

\* the variables of the pipeline and those of the single stage process
pipelineVars ==
  <<db, queue, disc, unit, impl, files, summaries, eventLog, sent, faults>>
stageVars == <<proc, msg, task, rows, em>>
mainVars == <<disk, wrapper, config>>
vars == <<pipelineVars, stageVars, call, mainVars, tracker>>

\* ------------------------------------------------------- session semantics
\* video.<f> = val on a session object: pending only if it is a net change
\* against the loaded value (an expired attribute always counts as changed)
SetAttr(u, f, val) ==
  [u EXCEPT !.pend[f] = IF u.seen[f] = val THEN Unchanged ELSE val]

\* session.commit(): UPDATE of the pending attributes only
Flush(row, pend) ==
  [f \in DOMAIN row |-> IF pend[f] = Unchanged THEN row[f] ELSE pend[f]]

\* the unit after session.commit(): nothing pending, attributes expired
Committed(u) ==
  [u EXCEPT !.pend = NoPending,
            !.seen = ExpiredRow,
            !.wrote = IF u.pend.status = Unchanged THEN @
                      ELSE @ \cup {u.pend.status}]

\* the unit after session.rollback(): pending changes dropped, expired
RolledBack(u) == [u EXCEPT !.pend = NoPending, !.seen = ExpiredRow]

\* ------------------------------------------------------------- unit record
IdleUnit ==
  [pc |-> "idle", seen |-> NoRow, pend |-> NoPending,
   input |-> "-", op |-> "-", opCalls |-> 0, handoff |-> "-", wrote |-> {},
   early |-> FALSE, event |-> "-"]

StartUnit == [IdleUnit EXCEPT !.pc = "start"]

\* the unit returns: its session is closed (what it did is kept as history)
Finished(u) == [u EXCEPT !.pc = "done", !.seen = NoRow, !.pend = NoPending]

IdleJob ==
  [pc |-> "none", limit |-> NoLimit, i |-> 0, count |-> 0,
   rows |-> {}, msgs |-> {}, lost |-> {}, captions |-> {},
   skipped |-> {}]

\* ------------------------------------------------ the single stage process
\* messages delivered to the stage, one per item; the delivery tag names both
MaxMsgs == 2
Msgs == 1..MaxMsgs

\* @resilient_consumer(max_retries=3, delay=5)
max_retries == 3

\* the process before main() runs
IdleProc ==
  [style |-> "-", loop |-> "unset", consumer |-> "off", cur |-> 0,
   retries |-> 0, link |-> "-", rabbitmq |-> TRUE, kafka |-> TRUE]

\* a message not yet published to the stage's queue
NoMsg == [state |-> "none", body |-> "-", calls |-> 0]

\* no unit of work has been handed over for the message
NoTask == [pc |-> "none", runs |-> 0, via |-> "-", handed |-> 0, op |-> "-"]

\* no call of publish_event yet
IdleEM == [pc |-> "idle", rabbitmq |-> "-", kafka |-> "-", result |-> "-"]

\* no library function called yet
NoCall == [fn |-> "-"]

\* the videos main discovers on the channel
Discovered == {"a", "b"}

\* Config defaults: IS_OPENAI_RUNTIME False, IS_SAVE_ONLY_SUMMARIES True
DefaultConfig == [is_openai_runtime |-> FALSE, is_save_only_summaries |-> TRUE]

\* units of work handed to one ServiceAsyncProcessor
MaxUnits == 2
Scheduled == 1..MaxUnits

\* a result of get_internal_task_count: not called, a number, or raised;
\* with it, the units that ran when it was called and where the consumer
\* thread was
NoCount == [called |-> FALSE, raised |-> "-", n |-> 0, running |-> 0,
            during |-> "-"]

\* ServiceAsyncProcessor.__init__ and set_loop: the loop given by main, no
\* task yet; count is the last result of get_internal_task_count
IdleTracker ==
  [loop |-> "running", step |-> "idle", cur |-> 0,
   future |-> [u \in Scheduled |-> "none"],
   via |-> [u \in Scheduled |-> "-"],
   internal_tasks |-> {}, callbacks |-> {}, count |-> NoCount]

InitProcess ==
  /\ call = NoCall
  /\ tracker = IdleTracker
  /\ disk = {}
  /\ wrapper = [d \in Discovered |-> "none"]
  /\ config = DefaultConfig
  /\ proc = IdleProc
  /\ msg = [d \in Msgs |-> NoMsg]
  /\ task = [d \in Msgs |-> NoTask]
  /\ rows = [d \in Msgs |-> PENDING]
  /\ em = IdleEM

\* nothing submitted yet; js names the discovery messages that may come
InitWith(js) ==
  /\ InitProcess
  /\ db = [v \in VideoIds |-> NoRow]
  /\ queue = [q \in QueueNames |-> [v \in VideoIds |-> 0]]
  /\ disc = [j \in js |-> IdleJob]
  /\ unit = [s \in Stages |-> [v \in VideoIds |-> IdleUnit]]
  /\ impl \in [Stages -> {"app", "template"}]
  /\ files = [v \in VideoIds |-> {}]
  /\ summaries = {}
  /\ eventLog = {}
  /\ sent = [q \in QueueNames |-> [v \in VideoIds |-> 0]]
  /\ faults = 0

Init == InitWith(Jobs)

\* ------------------------------------------------------ broker and events
\* a message accepted by the broker
Enqueue(q, v) ==
  /\ queue' = [queue EXCEPT ![q][v] = @ + 1]
  /\ sent' = [sent EXCEPT ![q][v] = @ + 1]

\* QueueClient.publish_message: basic_publish; on StreamLostError reconnect
\* and publish once more; every exception (of the first attempt or of the
\* retry) is logged and swallowed, so the call always returns normally.
\*   sent: accepted at once        resent: accepted by the retry
\*   retry_failed: StreamLostError and the retry raised
\*   failed: another exception on the first attempt
PublishOutcomes == {"sent", "resent", "retry_failed", "failed"}
Accepted(o) == o \in {"sent", "resent"}

publish_message(q, v, o) ==
  /\ o # "sent" => faults < MaxFaults
  /\ faults' = IF o = "sent" THEN faults ELSE faults + 1
  /\ IF Accepted(o) THEN Enqueue(q, v) ELSE UNCHANGED <<queue, sent>>

\* QueueClient.declare_queue raises when the broker is unreachable
DeclareQueueRaises ==
  /\ faults < MaxFaults
  /\ faults' = faults + 1
  /\ UNCHANGED <<queue, sent>>

\* event_publisher.publish then kafka_producer.send_event: both are tried,
\* each swallows its own failure (an outage of one channel or of both is one
\* fault)
PublishEvents(type, v) ==
  \E r \in BOOLEAN, k \in BOOLEAN :
    LET n == IF r /\ k THEN 0 ELSE 1 IN
    /\ faults + n <= MaxFaults
    /\ faults' = faults + n
    /\ eventLog' = eventLog
                     \cup (IF r THEN {<<type, v, "rabbitmq">>} ELSE {})
                     \cup (IF k THEN {<<type, v, "kafka">>} ELSE {})

\* -------------------------------------------------------------- discovery
SetJob(j, d) == disc' = [disc EXCEPT ![j] = d]

\* `continue` / end of the loop body: the next entry, or the end of the list
NextEntry(d) ==
  IF d.i + 1 > Len(Entries)
  THEN [d EXCEPT !.pc = "done"]
  ELSE [d EXCEPT !.pc = "check", !.i = d.i + 1]

\* the limit test that ends the loop body (`break`)
LimitReached(d) == d.limit # NoLimit /\ d.count >= d.limit

AfterLimitCheck(d) ==
  IF LimitReached(d) THEN [d EXCEPT !.pc = "done"] ELSE NextEntry(d)

\* the job facade enqueues one discovery message ({job_id, channel_name,
\* num_videos_to_process, ...}, the message process_discovery_task reads)
SubmitJob(j) ==
  /\ disc[j].pc = "none"
  /\ \E n \in LimitChoices :
       SetJob(j, [disc[j] EXCEPT !.pc = "queued", !.limit = n])
  /\ UNCHANGED <<db, queue, unit, impl, files, summaries, eventLog, sent, faults, stageVars, call, mainVars, tracker>>

\* process_discovery_task: acknowledge, then schedule the unit
ConsumeDiscovery(j) ==
  /\ disc[j].pc = "queued"
  /\ SetJob(j, [disc[j] EXCEPT !.pc = "start"])
  /\ UNCHANGED <<db, queue, unit, impl, files, summaries, eventLog, sent, faults, stageVars, call, mainVars, tracker>>

\* a discovery unit between its first and its last statement
Running(d) == d.pc \in {"check", "fetch", "publish", "commit", "events"}

\* handle_discovery_task up to the loop: declare_queue('download_queue')
\* raises when the broker is down and the unit ends; else the listing is read.
\* The unit awaits nothing but process_discovery_task_internal, which awaits
\* nothing: on the one event loop of the process a unit starts only when no
\* other unit is running.
DS_Start(j) ==
  /\ disc[j].pc = "start"
  /\ \A k \in DOMAIN disc : ~Running(disc[k])
  /\ \/ /\ SetJob(j, IF Len(Entries) = 0
                     THEN [disc[j] EXCEPT !.pc = "done"]
                     ELSE [disc[j] EXCEPT !.pc = "check", !.i = 1])
        /\ UNCHANGED <<queue, sent, faults>>
     \/ /\ DeclareQueueRaises
        /\ SetJob(j, [disc[j] EXCEPT !.pc = "done"])
  /\ UNCHANGED <<db, unit, impl, files, summaries, eventLog, stageVars, call, mainVars, tracker>>

\* the lookup of the candidate: an id already in the table is skipped
DS_CheckExisting(j) ==
  /\ disc[j].pc = "check"
  /\ LET v == Entries[disc[j].i] IN
       SetJob(j, IF db[v] # NoRow
                 THEN NextEntry(disc[j])
                 ELSE [disc[j] EXCEPT !.pc = "fetch"])
  /\ UNCHANGED <<db, queue, unit, impl, files, summaries, eventLog, sent, faults, stageVars, call, mainVars, tracker>>

\* fetch_video_details and _is_video_valid; a valid candidate is added to
\* the session (not yet to the table).  The details say whether the video
\* has captions; the new row has no column for it.
DS_Fetch(j) ==
  /\ disc[j].pc = "fetch"
  /\ \E details \in {"none", "invalid", "valid"}, has_captions \in BOOLEAN :
       /\ details = "none" => ~has_captions
       /\ LET v == Entries[disc[j].i]
              c == IF has_captions
                   THEN [disc[j] EXCEPT !.captions = @ \cup {v}]
                   ELSE disc[j]
              d == IF details = "valid" THEN c
                   ELSE [c EXCEPT !.skipped = @ \cup {v}] IN
          SetJob(j, CASE details = "none" -> NextEntry(d)
                      [] details = "invalid" -> AfterLimitCheck(d)
                      [] details = "valid" -> [d EXCEPT !.pc = "publish"])
  /\ UNCHANGED <<db, queue, unit, impl, files, summaries, eventLog, sent, faults, stageVars, call, mainVars, tracker>>

\* queue_client.publish_message('download_queue', ...): returns normally
\* whether or not the broker took the message
DS_Publish(j) ==
  /\ disc[j].pc = "publish"
  /\ LET v == Entries[disc[j].i] IN
       \E o \in PublishOutcomes :
         /\ publish_message("download_queue", v, o)
         /\ SetJob(j, IF Accepted(o)
                      THEN [disc[j] EXCEPT !.pc = "commit", !.msgs = @ \cup {v}]
                      ELSE [disc[j] EXCEPT !.pc = "commit", !.lost = @ \cup {v}])
  /\ UNCHANGED <<db, unit, impl, files, summaries, eventLog, stageVars, call, mainVars, tracker>>

\* session.commit() of the new row; when it raises (a duplicate key, or the
\* store failing the transaction) the except clause rolls back and continues
\* with the next entry
DS_Commit(j) ==
  /\ disc[j].pc = "commit"
  /\ LET v == Entries[disc[j].i] IN
       \/ /\ db[v] = NoRow
          /\ db' = [db EXCEPT ![v] = Video(PENDING, NoPath, NoPath)]
          /\ SetJob(j, [disc[j] EXCEPT !.pc = "events", !.rows = @ \cup {v}])
          /\ UNCHANGED faults
       \/ /\ db[v] # NoRow
          /\ SetJob(j, NextEntry(disc[j]))
          /\ UNCHANGED <<db, faults>>
       \/ /\ db[v] = NoRow
          /\ faults < MaxFaults
          /\ faults' = faults + 1
          /\ SetJob(j, NextEntry(disc[j]))
          /\ UNCHANGED db
  /\ UNCHANGED <<queue, unit, impl, files, summaries, eventLog, sent, stageVars, call, mainVars, tracker>>

\* the two events, the count, the limit test
DS_Events(j) ==
  /\ disc[j].pc = "events"
  /\ PublishEvents("VideoDiscovered", Entries[disc[j].i])
  /\ SetJob(j, AfterLimitCheck([disc[j] EXCEPT !.count = @ + 1]))
  /\ UNCHANGED <<db, queue, unit, impl, files, summaries, sent, stageVars, call, mainVars, tracker>>

\* the discovery process handling the messages js
DiscoveryOf(js) ==
  \E j \in js :
    \/ SubmitJob(j) \/ ConsumeDiscovery(j) \/ DS_Start(j)
    \/ DS_CheckExisting(j) \/ DS_Fetch(j) \/ DS_Publish(j)
    \/ DS_Commit(j) \/ DS_Events(j)

Discovery == DiscoveryOf(Jobs)

\* ---------------------------------------------------- stage units, shared
SetUnit(s, v, u) == unit' = [unit EXCEPT ![s][v] = u]

\* the stage whose handoff feeds stage s
Predecessor(s) ==
  CASE s = "audio_extraction" -> "download"
    [] s = "transcription" -> "audio_extraction"
    [] s = "summarization" -> "transcription"

\* some unit of the preceding stage has published the handoff for v and has
\* not yet committed the row it describes
PredecessorUncommitted(s, v) ==
  IF s = "download"
  THEN \E j \in DOMAIN disc : /\ disc[j].pc = "commit"
                       /\ Entries[disc[j].i] = v
                       /\ v \in disc[j].msgs
  ELSE /\ unit[Predecessor(s)][v].pc = "commit"
       /\ unit[Predecessor(s)][v].handoff = "ok"

\* the consumer callback of a stage (process_<stage>_task,
\* AsyncWorker._process_message_sync): basic_ack at once, then the unit is
\* scheduled on the event loop
Consume(s, v) ==
  /\ queue[queue_map[s]][v] > 0
  /\ unit[s][v].pc \in {"idle", "done"}
  /\ queue' = [queue EXCEPT ![queue_map[s]][v] = @ - 1]
  /\ SetUnit(s, v, StartUnit)
  /\ UNCHANGED <<db, disc, impl, files, summaries, eventLog, sent, faults, stageVars, call, mainVars, tracker>>

\* the first read of the row by a unit
Loaded(s, v) ==
  [unit[s][v] EXCEPT !.seen = db[v],
                     !.early = PredecessorUncommitted(s, v)]

\* what the unit found: the row "absent", its input artifact "missing", or
\* all it needs "present"
Found(u, inp) == [u EXCEPT !.input = inp]

\* session.commit() by the unit of stage s for v, then on to pc
CommitThen(s, v, pc) ==
  /\ db' = [db EXCEPT ![v] = Flush(db[v], unit[s][v].pend)]
  /\ SetUnit(s, v, IF pc = "done" THEN Finished(Committed(unit[s][v]))
                   ELSE [Committed(unit[s][v]) EXCEPT !.pc = pc])

\* the except clause of handle_<stage>_task: (rollback,) query, FAILED, commit
MarkFailedAfterException(s, v, u) ==
  LET f == SetAttr(u, "status", FAILED) IN
  /\ db' = [db EXCEPT ![v] = Flush(db[v], f.pend)]
  /\ SetUnit(s, v, Finished(Committed(f)))

\* an external collaborator call returned r: count it
Called(u, r) == [u EXCEPT !.op = r, !.opCalls = @ + 1]

\* the unit after its event block: "failed" when a channel did not take the
\* event, which the block logs and swallows
AfterEvents(u) ==
  [u EXCEPT !.event = IF faults' = faults THEN "ok" ELSE "failed"]

\* ---------------------------------------------------- download_service/app
\* the lookup with an absent id treated as a failed item: a FAILED row is
\* written for it
DL_Lookup_MarksAbsentFailed(v) ==
  /\ impl["download"] = "app"
  /\ unit["download"][v].pc = "start"
  /\ LET u == Loaded("download", v) IN
       /\ SetUnit("download", v,
               IF db[v] = NoRow
               THEN Finished(Found(u, "absent"))
               ELSE SetAttr([Found(u, "present") EXCEPT !.pc = "mark"],
                            "status", DOWNLOADING))
       /\ db' = IF db[v] = NoRow
                THEN [db EXCEPT ![v] = Video(FAILED, NoPath, NoPath)]
                ELSE db
  /\ UNCHANGED <<queue, disc, impl, files, summaries, eventLog, sent, faults, stageVars, call, mainVars, tracker>>

\* the lookup: no row -> log and return; else DOWNLOADING is set
DL_Lookup(v) ==
  /\ impl["download"] = "app"
  /\ unit["download"][v].pc = "start"
  /\ LET u == Loaded("download", v) IN
       SetUnit("download", v,
               IF db[v] = NoRow
               THEN Finished(Found(u, "absent"))
               ELSE SetAttr([Found(u, "present") EXCEPT !.pc = "mark"],
                            "status", DOWNLOADING))
  /\ UNCHANGED <<db, queue, disc, impl, files, summaries, eventLog, sent, faults, stageVars, call, mainVars, tracker>>

\* session.commit() of DOWNLOADING; building the paths reloads the row
DL_MarkInProgress(v) ==
  /\ impl["download"] = "app"
  /\ unit["download"][v].pc = "mark"
  /\ db' = [db EXCEPT ![v] = Flush(db[v], unit["download"][v].pend)]
  /\ SetUnit("download", v,
             [Committed(unit["download"][v]) EXCEPT !.pc = "op", !.seen = db'[v]])
  /\ UNCHANGED <<queue, disc, impl, files, summaries, eventLog, sent, faults, stageVars, call, mainVars, tracker>>

\* an operation that finds its output artifact returns it and calls no
\* external collaborator
Cached(u) == [u EXCEPT !.op = "ok"]

\* video_downloader.download_video: the file when it exists already; else a
\* path, None, or an exception
DL_Download(v) ==
  /\ impl["download"] = "app"
  /\ unit["download"][v].pc = "op"
  /\ \E r \in {"ok", "none", "raise"} :
       LET hit == "video" \in files[v]
           u == IF hit THEN Cached(unit["download"][v])
                ELSE Called(unit["download"][v], r) IN
       /\ hit => r = "ok"
       /\ SetUnit("download", v,
            CASE r = "ok" ->
                   SetAttr(SetAttr([u EXCEPT !.pc = "publish"],
                                   "status", DOWNLOADED),
                           "video_file_path", VideoPath)
              [] r = "none" -> SetAttr([u EXCEPT !.pc = "fail"], "status", FAILED)
              [] r = "raise" -> [u EXCEPT !.pc = "exc"])
       /\ files' = IF r = "ok" THEN [files EXCEPT ![v] = @ \cup {"video"}]
                   ELSE files
  /\ UNCHANGED <<db, queue, disc, impl, summaries, eventLog, sent, faults, stageVars, call, mainVars, tracker>>

\* declare_queue and publish_message inside the try: declare_queue may raise
\* (rollback, return); publish_message never does
DL_Publish(v) ==
  /\ impl["download"] = "app"
  /\ unit["download"][v].pc = "publish"
  /\ \/ /\ DeclareQueueRaises
        /\ SetUnit("download", v,
                   Finished([unit["download"][v] EXCEPT !.handoff = "refused"]))
     \/ \E o \in PublishOutcomes :
          /\ publish_message("audio_extraction_queue", v, o)
          /\ SetUnit("download", v,
                     [unit["download"][v] EXCEPT
                        !.pc = "commit",
                        !.handoff = IF Accepted(o) THEN "ok" ELSE "lost"])
  /\ UNCHANGED <<db, disc, impl, files, summaries, eventLog, stageVars, call, mainVars, tracker>>

DL_Commit(v) ==
  /\ impl["download"] = "app"
  /\ unit["download"][v].pc = "commit"
  /\ CommitThen("download", v, "events")
  /\ UNCHANGED <<queue, disc, impl, files, summaries, eventLog, sent, faults, stageVars, call, mainVars, tracker>>

DL_Events(v) ==
  /\ impl["download"] = "app"
  /\ unit["download"][v].pc = "events"
  /\ PublishEvents("VideoDownloaded", v)
  /\ SetUnit("download", v, Finished(AfterEvents(unit["download"][v])))
  /\ UNCHANGED <<db, queue, disc, impl, files, summaries, sent, stageVars, call, mainVars, tracker>>

\* the else branch: FAILED, commit
DL_MarkFailed(v) ==
  /\ impl["download"] = "app"
  /\ unit["download"][v].pc = "fail"
  /\ CommitThen("download", v, "done")
  /\ UNCHANGED <<queue, disc, impl, files, summaries, eventLog, sent, faults, stageVars, call, mainVars, tracker>>

\* handle_download_task, except: rollback, query (a fresh load), FAILED, commit
DL_Exception(v) ==
  /\ impl["download"] = "app"
  /\ unit["download"][v].pc = "exc"
  /\ MarkFailedAfterException("download", v,
       [RolledBack(unit["download"][v]) EXCEPT !.seen = db[v]])
  /\ UNCHANGED <<queue, disc, impl, files, summaries, eventLog, sent, faults, stageVars, call, mainVars, tracker>>

DownloadService ==
  \E v \in VideoIds :
    \/ DL_Lookup(v) \/ DL_MarkInProgress(v) \/ DL_Download(v)
    \/ DL_Publish(v) \/ DL_Commit(v) \/ DL_Events(v)
    \/ DL_MarkFailed(v) \/ DL_Exception(v)

\* -------------------------------------------- audio_extraction_service/app
\* no row, or no video_file_path on it: log and return
AE_Lookup(v) ==
  /\ impl["audio_extraction"] = "app"
  /\ unit["audio_extraction"][v].pc = "start"
  /\ LET u == Loaded("audio_extraction", v) IN
       SetUnit("audio_extraction", v,
               IF db[v] = NoRow THEN Finished(Found(u, "absent"))
               ELSE IF db[v].video_file_path = NoPath
               THEN Finished(Found(u, "missing"))
               ELSE [Found(u, "present") EXCEPT !.pc = "op"])
  /\ UNCHANGED <<db, queue, disc, impl, files, summaries, eventLog, sent, faults, stageVars, call, mainVars, tracker>>

\* audio_extractor.extract_audio: True when the audio file exists already;
\* else True, False, or an exception
AE_Extract(v) ==
  /\ impl["audio_extraction"] = "app"
  /\ unit["audio_extraction"][v].pc = "op"
  /\ \E r \in {"ok", "falsy", "raise"} :
       LET hit == "audio" \in files[v]
           u == IF hit THEN Cached(unit["audio_extraction"][v])
                ELSE Called(unit["audio_extraction"][v], r) IN
       /\ hit => r = "ok"
       /\ SetUnit("audio_extraction", v,
            CASE r = "ok" ->
                   SetAttr(SetAttr([u EXCEPT !.pc = "publish"],
                                   "status", AUDIO_EXTRACTED),
                           "audio_file_path", AudioPath)
              [] r = "falsy" -> SetAttr([u EXCEPT !.pc = "fail"], "status", FAILED)
              [] r = "raise" -> [u EXCEPT !.pc = "exc"])
       /\ files' = IF r = "ok" THEN [files EXCEPT ![v] = @ \cup {"audio"}]
                   ELSE files
  /\ UNCHANGED <<db, queue, disc, impl, summaries, eventLog, sent, faults, stageVars, call, mainVars, tracker>>

AE_Publish(v) ==
  /\ impl["audio_extraction"] = "app"
  /\ unit["audio_extraction"][v].pc = "publish"
  /\ \/ /\ DeclareQueueRaises
        /\ SetUnit("audio_extraction", v,
                   Finished([unit["audio_extraction"][v] EXCEPT !.handoff = "refused"]))
     \/ \E o \in PublishOutcomes :
          /\ publish_message("transcription_queue", v, o)
          /\ SetUnit("audio_extraction", v,
                     [unit["audio_extraction"][v] EXCEPT
                        !.pc = "commit",
                        !.handoff = IF Accepted(o) THEN "ok" ELSE "lost"])
  /\ UNCHANGED <<db, disc, impl, files, summaries, eventLog, stageVars, call, mainVars, tracker>>

AE_Commit(v) ==
  /\ impl["audio_extraction"] = "app"
  /\ unit["audio_extraction"][v].pc = "commit"
  /\ CommitThen("audio_extraction", v, "events")
  /\ UNCHANGED <<queue, disc, impl, files, summaries, eventLog, sent, faults, stageVars, call, mainVars, tracker>>

AE_Events(v) ==
  /\ impl["audio_extraction"] = "app"
  /\ unit["audio_extraction"][v].pc = "events"
  /\ PublishEvents("AudioExtracted", v)
  /\ SetUnit("audio_extraction", v,
             Finished(AfterEvents(unit["audio_extraction"][v])))
  /\ UNCHANGED <<db, queue, disc, impl, files, summaries, sent, stageVars, call, mainVars, tracker>>

AE_MarkFailed(v) ==
  /\ impl["audio_extraction"] = "app"
  /\ unit["audio_extraction"][v].pc = "fail"
  /\ CommitThen("audio_extraction", v, "done")
  /\ UNCHANGED <<queue, disc, impl, files, summaries, eventLog, sent, faults, stageVars, call, mainVars, tracker>>

\* handle_extraction_task, except: no rollback; the query returns the object
\* the session already holds, as it was loaded
AE_Exception(v) ==
  /\ impl["audio_extraction"] = "app"
  /\ unit["audio_extraction"][v].pc = "exc"
  /\ MarkFailedAfterException("audio_extraction", v, unit["audio_extraction"][v])
  /\ UNCHANGED <<queue, disc, impl, files, summaries, eventLog, sent, faults, stageVars, call, mainVars, tracker>>

AudioExtractionService ==
  \E v \in VideoIds :
    \/ AE_Lookup(v) \/ AE_Extract(v) \/ AE_Publish(v) \/ AE_Commit(v)
    \/ AE_Events(v) \/ AE_MarkFailed(v) \/ AE_Exception(v)

\* ------------------------------------------------ transcription_service/app
TR_Lookup(v) ==
  /\ impl["transcription"] = "app"
  /\ unit["transcription"][v].pc = "start"
  /\ LET u == Loaded("transcription", v) IN
       SetUnit("transcription", v,
               IF db[v] = NoRow THEN Finished(Found(u, "absent"))
               ELSE IF db[v].audio_file_path = NoPath
               THEN Finished(Found(u, "missing"))
               ELSE SetAttr([Found(u, "present") EXCEPT !.pc = "mark"],
                            "status", TRANSCRIBING))
  /\ UNCHANGED <<db, queue, disc, impl, files, summaries, eventLog, sent, faults, stageVars, call, mainVars, tracker>>

\* session.commit() of TRANSCRIBING; video.audio_file_path reloads the row
TR_MarkInProgress(v) ==
  /\ impl["transcription"] = "app"
  /\ unit["transcription"][v].pc = "mark"
  /\ db' = [db EXCEPT ![v] = Flush(db[v], unit["transcription"][v].pend)]
  /\ SetUnit("transcription", v,
             [Committed(unit["transcription"][v]) EXCEPT
                !.pc = "op", !.seen = db'[v]])
  /\ UNCHANGED <<queue, disc, impl, files, summaries, eventLog, sent, faults, stageVars, call, mainVars, tracker>>

\* transcribe_audio: a text, the empty text, None, or an exception; any
\* result that is not None is written to the transcription file
TR_Transcribe(v) ==
  /\ impl["transcription"] = "app"
  /\ unit["transcription"][v].pc = "op"
  /\ \E r \in {"ok", "falsy", "none", "raise"} :
       LET u == Called(unit["transcription"][v], r) IN
       /\ SetUnit("transcription", v,
            CASE r \in {"ok", "falsy"} ->
                   SetAttr([u EXCEPT !.pc = "publish"], "status", TRANSCRIBED)
              [] r = "none" -> SetAttr([u EXCEPT !.pc = "fail"], "status", FAILED)
              [] r = "raise" -> [u EXCEPT !.pc = "exc"])
       /\ files' = IF r \in {"ok", "falsy"}
                   THEN [files EXCEPT ![v] = @ \cup {"transcription"}]
                   ELSE files
  /\ UNCHANGED <<db, queue, disc, impl, summaries, eventLog, sent, faults, stageVars, call, mainVars, tracker>>

TR_Publish(v) ==
  /\ impl["transcription"] = "app"
  /\ unit["transcription"][v].pc = "publish"
  /\ \/ /\ DeclareQueueRaises
        /\ SetUnit("transcription", v,
                   Finished([unit["transcription"][v] EXCEPT !.handoff = "refused"]))
     \/ \E o \in PublishOutcomes :
          /\ publish_message("summarization_queue", v, o)
          /\ SetUnit("transcription", v,
                     [unit["transcription"][v] EXCEPT
                        !.pc = "commit",
                        !.handoff = IF Accepted(o) THEN "ok" ELSE "lost"])
  /\ UNCHANGED <<db, disc, impl, files, summaries, eventLog, stageVars, call, mainVars, tracker>>

TR_Commit(v) ==
  /\ impl["transcription"] = "app"
  /\ unit["transcription"][v].pc = "commit"
  /\ CommitThen("transcription", v, "events")
  /\ UNCHANGED <<queue, disc, impl, files, summaries, eventLog, sent, faults, stageVars, call, mainVars, tracker>>

TR_Events(v) ==
  /\ impl["transcription"] = "app"
  /\ unit["transcription"][v].pc = "events"
  /\ PublishEvents("TranscriptionCompleted", v)
  /\ SetUnit("transcription", v, Finished(AfterEvents(unit["transcription"][v])))
  /\ UNCHANGED <<db, queue, disc, impl, files, summaries, sent, stageVars, call, mainVars, tracker>>

TR_MarkFailed(v) ==
  /\ impl["transcription"] = "app"
  /\ unit["transcription"][v].pc = "fail"
  /\ CommitThen("transcription", v, "done")
  /\ UNCHANGED <<queue, disc, impl, files, summaries, eventLog, sent, faults, stageVars, call, mainVars, tracker>>

\* handle_transcription_task, except: no rollback; the object as reloaded
\* before the operation
TR_Exception(v) ==
  /\ impl["transcription"] = "app"
  /\ unit["transcription"][v].pc = "exc"
  /\ MarkFailedAfterException("transcription", v, unit["transcription"][v])
  /\ UNCHANGED <<queue, disc, impl, files, summaries, eventLog, sent, faults, stageVars, call, mainVars, tracker>>

TranscriptionService ==
  \E v \in VideoIds :
    \/ TR_Lookup(v) \/ TR_MarkInProgress(v) \/ TR_Transcribe(v)
    \/ TR_Publish(v) \/ TR_Commit(v) \/ TR_Events(v)
    \/ TR_MarkFailed(v) \/ TR_Exception(v)

\* ------------------------------------------------ summarization_service/app
\* no row: return.  No transcription file: FAILED.  Else read it, SUMMARIZING
SM_Lookup(v) ==
  /\ impl["summarization"] = "app"
  /\ unit["summarization"][v].pc = "start"
  /\ LET u == Loaded("summarization", v) IN
       SetUnit("summarization", v,
               IF db[v] = NoRow THEN Finished(Found(u, "absent"))
               ELSE IF "transcription" \notin files[v]
               THEN SetAttr([Found(u, "missing") EXCEPT !.pc = "fail"],
                            "status", FAILED)
               ELSE SetAttr([Found(u, "present") EXCEPT !.pc = "mark"],
                            "status", SUMMARIZING))
  /\ UNCHANGED <<db, queue, disc, impl, files, summaries, eventLog, sent, faults, stageVars, call, mainVars, tracker>>

SM_MarkInProgress(v) ==
  /\ impl["summarization"] = "app"
  /\ unit["summarization"][v].pc = "mark"
  /\ CommitThen("summarization", v, "op")
  /\ UNCHANGED <<queue, disc, impl, files, summaries, eventLog, sent, faults, stageVars, call, mainVars, tracker>>

\* summary_call: a summary, the empty text, None, or an exception.  With a
\* summary: upsert in MongoDB, video.job_id reloads the row, COMPLETED.
\* Without: FAILED is set on the expired object
SM_Summarize(v) ==
  /\ impl["summarization"] = "app"
  /\ unit["summarization"][v].pc = "op"
  /\ \E r \in {"ok", "falsy", "none", "raise"} :
       LET u == Called(unit["summarization"][v], r) IN
       /\ SetUnit("summarization", v,
            CASE r = "ok" ->
                   SetAttr([u EXCEPT !.pc = "commit", !.seen = db[v]],
                           "status", COMPLETED)
              [] r \in {"falsy", "none"} ->
                   SetAttr([u EXCEPT !.pc = "fail"], "status", FAILED)
              [] r = "raise" -> [u EXCEPT !.pc = "exc"])
       /\ summaries' = IF r = "ok" THEN summaries \cup {v} ELSE summaries
  /\ UNCHANGED <<db, queue, disc, impl, files, eventLog, sent, faults, stageVars, call, mainVars, tracker>>

\* the final step publishes to no queue: commit only
SM_Commit(v) ==
  /\ impl["summarization"] = "app"
  /\ unit["summarization"][v].pc = "commit"
  /\ CommitThen("summarization", v, "events")
  /\ UNCHANGED <<queue, disc, impl, files, summaries, eventLog, sent, faults, stageVars, call, mainVars, tracker>>

SM_Events(v) ==
  /\ impl["summarization"] = "app"
  /\ unit["summarization"][v].pc = "events"
  /\ PublishEvents("SummarizationCompleted", v)
  /\ SetUnit("summarization", v, Finished(AfterEvents(unit["summarization"][v])))
  /\ UNCHANGED <<db, queue, disc, impl, files, summaries, sent, stageVars, call, mainVars, tracker>>

SM_MarkFailed(v) ==
  /\ impl["summarization"] = "app"
  /\ unit["summarization"][v].pc = "fail"
  /\ CommitThen("summarization", v, "done")
  /\ UNCHANGED <<queue, disc, impl, files, summaries, eventLog, sent, faults, stageVars, call, mainVars, tracker>>

\* handle_summarization_task, except: rollback, query, FAILED, commit
SM_Exception(v) ==
  /\ impl["summarization"] = "app"
  /\ unit["summarization"][v].pc = "exc"
  /\ MarkFailedAfterException("summarization", v,
       [RolledBack(unit["summarization"][v]) EXCEPT !.seen = db[v]])
  /\ UNCHANGED <<queue, disc, impl, files, summaries, eventLog, sent, faults, stageVars, call, mainVars, tracker>>

SummarizationService ==
  \E v \in VideoIds :
    \/ SM_Lookup(v) \/ SM_MarkInProgress(v) \/ SM_Summarize(v)
    \/ SM_Commit(v) \/ SM_Events(v) \/ SM_MarkFailed(v) \/ SM_Exception(v)

\* ------------------------------------------- patterns/ServiceTemplatePattern
\* enums/service_enums.py: the members of ServiceType
ServiceType ==
  {"DISCOVERY", "DOWNLOAD", "AUDIO_EXTRACTION", "TRANSCRIPTION", "SUMMARIZATION"}

\* QueueManager.send_message(service_type_enum, ...) reads
\* service_type_enum.name before its try block: an argument that is not a
\* ServiceType member (a queue name, a str) raises AttributeError
send_message_raises(arg) == arg \notin ServiceType

\* DatabaseManager.update_video(video_id, status=st): one session, one
\* transaction; False when the row is missing
update_video(s, v, st, pc) ==
  /\ db' = [db EXCEPT ![v].status = st]
  /\ SetUnit(s, v, LET u == [unit[s][v] EXCEPT !.wrote = @ \cup {st}] IN
                   IF pc = "done" THEN Finished(u) ELSE [u EXCEPT !.pc = pc])

\* process_message: update_video_status(video_id, in_progress_status);
\* a missing row returns False
T_MarkInProgress(s, v) ==
  /\ impl[s] = "template"
  /\ unit[s][v].pc = "start"
  /\ IF db[v] = NoRow
     THEN /\ SetUnit(s, v, Finished(Found(Loaded(s, v), "absent")))
          /\ UNCHANGED db
     ELSE /\ db' = [db EXCEPT ![v].status = in_progress_status[s]]
          /\ SetUnit(s, v, [Found(Loaded(s, v), "present") EXCEPT
                              !.pc = "t_get",
                              !.wrote = @ \cup {in_progress_status[s]}])
  /\ UNCHANGED <<queue, disc, impl, files, summaries, eventLog, sent, faults, stageVars, call, mainVars, tracker>>

\* process_message: db_manager.get_video
T_GetVideo(s, v) ==
  /\ impl[s] = "template"
  /\ unit[s][v].pc = "t_get"
  /\ SetUnit(s, v, [unit[s][v] EXCEPT
                      !.seen = IF db[v] = NoRow THEN NoRow ELSE db[v],
                      !.pc = IF db[v] = NoRow THEN "done" ELSE "t_op"])
  /\ UNCHANGED <<db, queue, disc, impl, files, summaries, eventLog, sent, faults, stageVars, call, mainVars, tracker>>

\* execute_pipeline: get_input_file_path returns None (nothing to validate),
\* then perform_specific_operation.  A result that is not None goes to
\* handle_success; None or an exception to handle_failure
T_ExecutePipeline(s, v) ==
  /\ impl[s] = "template"
  /\ unit[s][v].pc = "t_op"
  /\ \E r \in {"ok", "falsy", "none", "raise"} :
       SetUnit(s, v, [Called(unit[s][v], r) EXCEPT
                        !.pc = IF r \in {"ok", "falsy"} THEN "t_success"
                               ELSE "t_failure"])
  /\ UNCHANGED <<db, queue, disc, impl, files, summaries, eventLog, sent, faults, stageVars, call, mainVars, tracker>>

\* handle_success: update_video(status=completion) first; then, if there is
\* a next queue, queue_manager.send_message(next_queue, ...), whose
\* AttributeError reaches the except clause of process_message
T_HandleSuccess(s, v) ==
  /\ impl[s] = "template"
  /\ unit[s][v].pc = "t_success"
  /\ IF next_queue_map[s] = NoQueue
     THEN update_video(s, v, completion_status[s], "t_event")
     ELSE IF send_message_raises(next_queue_map[s])
     THEN /\ db' = [db EXCEPT ![v].status = completion_status[s]]
          /\ SetUnit(s, v, [unit[s][v] EXCEPT
                              !.pc = "t_failure",
                              !.handoff = "refused",
                              !.wrote = @ \cup {completion_status[s]}])
     ELSE FALSE
  /\ UNCHANGED <<queue, disc, impl, files, summaries, eventLog, sent, faults, stageVars, call, mainVars, tracker>>

\* handle_success: build_event_payload, which calls the stage's
\* get_service_specific_event_fields hook, then event_manager.publish_event
\* on both channels.  Neither call is guarded in handle_success: an exception
\* of the hook reaches the except clause of process_message
T_PublishEvent(s, v) ==
  /\ impl[s] = "template"
  /\ unit[s][v].pc = "t_event"
  /\ \/ /\ PublishEvents(event_map[s], v)
        /\ SetUnit(s, v, Finished(AfterEvents(unit[s][v])))
     \/ /\ faults < MaxFaults
        /\ faults' = faults + 1
        /\ SetUnit(s, v, [unit[s][v] EXCEPT !.pc = "t_failure",
                                            !.event = "failed"])
        /\ UNCHANGED eventLog
  /\ UNCHANGED <<db, queue, disc, impl, files, summaries, sent, stageVars, call, mainVars, tracker>>

\* handle_failure: update_video_status(video_id, FAILED)
T_HandleFailure(s, v) ==
  /\ impl[s] = "template"
  /\ unit[s][v].pc = "t_failure"
  /\ update_video(s, v, FAILED, "done")
  /\ UNCHANGED <<queue, disc, impl, files, summaries, eventLog, sent, faults, stageVars, call, mainVars, tracker>>

TemplateService ==
  \E s \in Stages, v \in VideoIds :
    \/ T_MarkInProgress(s, v) \/ T_GetVideo(s, v) \/ T_ExecutePipeline(s, v)
    \/ T_HandleSuccess(s, v) \/ T_PublishEvent(s, v) \/ T_HandleFailure(s, v)

\* ------------------------------------------------------------ specification
Consumers == \E s \in Stages, v \in VideoIds : Consume(s, v)

Next ==
  \/ Discovery
  \/ Consumers
  \/ DownloadService
  \/ AudioExtractionService
  \/ TranscriptionService
  \/ SummarizationService
  \/ TemplateService

Spec == Init /\ [][Next]_vars

\* the deployment of docker-compose: every stage runs its services/<stage>/app.py
InitServices == Init /\ impl = [s \in Stages |-> "app"]

NextServices ==
  \/ Discovery
  \/ Consumers
  \/ DownloadService
  \/ AudioExtractionService
  \/ TranscriptionService
  \/ SummarizationService

SpecServices == InitServices /\ [][NextServices]_vars

\* ---------------------------------------------------------------- shutdown
\* main() of a stage on KeyboardInterrupt: every task of the loop that is not
\* done is cancelled and awaited, then the loop is closed.  A unit that was
\* scheduled and has not started never runs; a unit inside its operation is
\* unwound by a BaseException, which the "except Exception" clause of
\* handle_<stage>_task does not catch: only the finally block runs (the
\* session is closed, what was committed stays)
Cancel(s, v) ==
  /\ unit[s][v].pc \in {"start", "op"}
  /\ faults < MaxFaults
  /\ faults' = faults + 1
  /\ SetUnit(s, v, Finished(IF unit[s][v].pc = "op"
                            THEN Called(unit[s][v], "cancelled")
                            ELSE [unit[s][v] EXCEPT !.op = "cancelled"]))
  /\ UNCHANGED <<db, queue, disc, impl, files, summaries, eventLog, sent, stageVars, call, mainVars, tracker>>

Shutdown == \E s \in Stages, v \in VideoIds : Cancel(s, v)

\* the stage services, any of which may be shut down while units are in flight
NextShutdown ==
  \/ NextServices
  \/ Shutdown

SpecShutdown == InitServices /\ [][NextShutdown]_vars

\* ---------------------------------------------- consume thread and callback
\* the callback a stage registers with start_consuming:
\*   service: process_download_task, i.e. process_download_task_external
\*            wrapped by resilient_consumer, handing over with schedule_task
\*   helper:  a callback handing over with schedule_task_with_immediate_ack
\*   worker:  AsyncWorker._process_message_sync
Styles == {"service", "helper", "worker"}

\* the order of the callback's steps
FirstStep(style) == IF style = "service" THEN "parse" ELSE "ack"
AfterAck(style) == IF style = "worker" THEN "parse" ELSE "check"
AfterParse(style) == IF style = "worker" THEN "submit" ELSE "ack"

\* the states in which a unit of work has ended
Outcomes == {"done", "failed", "cancelled"}

\* the broker requeues what is unacknowledged when the connection closes
Requeued(m) ==
  [d \in Msgs |-> IF m[d].state = "unacked"
                  THEN [m[d] EXCEPT !.state = "queued"] ELSE m[d]]

\* QueueClient.start_consuming: an exception ends channel.start_consuming(),
\* is logged, the connection is closed and the method returns: the consume
\* thread (consume_messages) is over
Stopped(p) == [p EXCEPT !.consumer = "stopped", !.cur = 0, !.link = "closed"]

\* the callback returns to pika, which waits for the next delivery
Returned(p) == [p EXCEPT !.consumer = "idle", !.cur = 0]

\* main(): the loop is created and given to the processor (set_loop), then
\* the consume thread is started: QueueClient(), declare_queue,
\* start_consuming.  The event channels are reachable or not for the run
Main_Start ==
  /\ proc.loop = "unset"
  /\ \E st \in Styles, r \in BOOLEAN, k \in BOOLEAN :
       proc' = [proc EXCEPT !.style = st, !.loop = "set",
                            !.consumer = "idle", !.link = "up",
                            !.rabbitmq = r, !.kafka = k]
  /\ UNCHANGED <<msg, task, rows, em, pipelineVars, call, mainVars, tracker>>

\* main(): loop.run_forever()
Main_RunForever ==
  /\ proc.loop = "set"
  /\ proc' = [proc EXCEPT !.loop = "running"]
  /\ UNCHANGED <<msg, task, rows, em, pipelineVars, call, mainVars, tracker>>

\* main(), KeyboardInterrupt: the tasks of the loop that are not done are
\* cancelled and awaited
Main_Interrupt ==
  /\ proc.loop = "running"
  /\ proc' = [proc EXCEPT !.loop = "stopped"]
  /\ task' = [d \in Msgs |->
               IF task[d].via = "loop" /\ task[d].pc \notin Outcomes
               THEN [task[d] EXCEPT !.pc = "cancelled"] ELSE task[d]]
  /\ UNCHANGED <<msg, rows, em, pipelineVars, call, mainVars, tracker>>

\* main(): loop.close()
Main_Close ==
  /\ proc.loop = "stopped"
  /\ proc' = [proc EXCEPT !.loop = "closed"]
  /\ UNCHANGED <<msg, task, rows, em, pipelineVars, call, mainVars, tracker>>

\* the preceding stage publishes the message of item d
Upstream_Publish(d) ==
  /\ msg[d].state = "none"
  /\ \E b \in {"json", "malformed"} :
       msg' = [msg EXCEPT ![d] = [state |-> "queued", body |-> b, calls |-> 0]]
  /\ UNCHANGED <<proc, task, rows, em, pipelineVars, call, mainVars, tracker>>

\* the connection of the consume thread breaks
LoseConnection ==
  /\ proc.link = "up"
  /\ proc.consumer \notin {"off", "stopped"}
  /\ proc' = [proc EXCEPT !.link = "lost"]
  /\ UNCHANGED <<msg, task, rows, em, pipelineVars, call, mainVars, tracker>>

\* start_consuming, waiting for a delivery on a broken connection: except
\* Exception -> log, finally -> close, return
ConsumeLoopEnds ==
  /\ proc.consumer = "idle"
  /\ proc.link = "lost"
  /\ proc' = Stopped(proc)
  /\ msg' = Requeued(msg)
  /\ UNCHANGED <<task, rows, em, pipelineVars, call, mainVars, tracker>>

\* pika delivers the next message (prefetch_count=1) and calls the callback
Deliver(d) ==
  /\ proc.consumer = "idle"
  /\ proc.link = "up"
  /\ msg[d].state = "queued"
  /\ msg' = [msg EXCEPT ![d].state = "unacked", ![d].calls = 1]
  /\ proc' = [proc EXCEPT !.consumer = FirstStep(proc.style), !.cur = d,
                          !.retries = 0]
  /\ UNCHANGED <<task, rows, em, pipelineVars, call, mainVars, tracker>>

\* an exception leaves the callback.  resilient_consumer.wrapper: count it;
\* at max_retries basic_ack and break, else sleep and call the callback
\* again.  An unwrapped callback lets it reach start_consuming
CallbackRaises(d, m) ==
  IF proc.style = "service"
  THEN IF proc.retries + 1 >= max_retries
       THEN IF proc.link = "up"
            THEN /\ proc' = Returned(proc)
                 /\ msg' = [m EXCEPT ![d].state = "acked"]
            ELSE /\ proc' = Stopped(proc)
                 /\ msg' = Requeued(m)
       ELSE /\ proc' = [proc EXCEPT !.retries = @ + 1,
                                    !.consumer = FirstStep(proc.style)]
            /\ msg' = [m EXCEPT ![d].calls = @ + 1]
  ELSE /\ proc' = Stopped(proc)
       /\ msg' = Requeued(m)

\* json.loads(body) and data["video_id"]
CB_Parse(d) ==
  /\ proc.consumer = "parse"
  /\ proc.cur = d
  /\ IF msg[d].body = "json"
     THEN /\ proc' = [proc EXCEPT !.consumer = AfterParse(proc.style)]
          /\ UNCHANGED msg
     ELSE CallbackRaises(d, msg)
  /\ UNCHANGED <<task, rows, em, pipelineVars, call, mainVars, tracker>>

\* channel.basic_ack first.  When it raises: the services and the worker log
\* and return (no unit); schedule_task_with_immediate_ack tries basic_nack
\* (requeue=False) on the same channel, passes, and goes on to schedule.
\* An ack of a tag already acknowledged makes the broker close the channel
CB_Ack(d) ==
  /\ proc.consumer = "ack"
  /\ proc.cur = d
  /\ IF proc.link = "up"
     THEN /\ msg' = [msg EXCEPT ![d].state = "acked"]
          /\ proc' = [proc EXCEPT
                        !.consumer = AfterAck(proc.style),
                        !.link = IF msg[d].state = "acked" THEN "lost" ELSE @]
     ELSE /\ proc' = IF proc.style = "helper"
                     THEN [proc EXCEPT !.consumer = "check"]
                     ELSE Returned(proc)
          /\ UNCHANGED msg
  /\ UNCHANGED <<task, rows, em, pipelineVars, call, mainVars, tracker>>

\* schedule_task: loop_set.wait(timeout) returns at once, main() has set the
\* loop; then "if self.loop and not self.loop.is_closed()"
CB_Check(d) ==
  /\ proc.consumer = "check"
  /\ proc.cur = d
  /\ proc' = [proc EXCEPT !.consumer = IF proc.loop = "closed"
                                       THEN "fallback" ELSE "submit"]
  /\ UNCHANGED <<msg, task, rows, em, pipelineVars, call, mainVars, tracker>>

\* the unit handed to the loop
Pending(t) == [t EXCEPT !.pc = "pending", !.via = "loop", !.handed = @ + 1]

\* a hand-over that raises after the unit was given to the loop
CB_Submit_RaisesAfterHandover(d) ==
  /\ proc.consumer = "submit"
  /\ proc.cur = d
  /\ task' = [task EXCEPT ![d] = Pending(task[d])]
  /\ CallbackRaises(d, msg)
  /\ UNCHANGED <<rows, em, pipelineVars, call, mainVars, tracker>>

\* asyncio.run_coroutine_threadsafe(coro, loop): the unit waits on the loop;
\* on a loop closed in the meantime it raises RuntimeError
CB_Submit(d) ==
  /\ proc.consumer = "submit"
  /\ proc.cur = d
  /\ IF proc.loop = "closed"
     THEN /\ CallbackRaises(d, msg)
          /\ UNCHANGED task
     ELSE /\ task' = [task EXCEPT ![d] = Pending(task[d])]
          /\ proc' = Returned(proc)
          /\ UNCHANGED msg
  /\ UNCHANGED <<rows, em, pipelineVars, call, mainVars, tracker>>

\* a fallback that only logs the missing loop: the unit is never run
CB_Fallback_OnlyLogs(d) ==
  /\ proc.consumer = "fallback"
  /\ proc.cur = d
  /\ task' = [task EXCEPT ![d] = [@ EXCEPT !.pc = "done", !.via = "sync",
                                          !.handed = @ + 1]]
  /\ proc' = [proc EXCEPT !.consumer = "sync"]
  /\ UNCHANGED <<msg, rows, em, pipelineVars, call, mainVars, tracker>>

\* the fallback: executor.submit(asyncio.run, coro) inside "with
\* ThreadPoolExecutor()": the unit runs now, the callback waits for it
CB_Fallback(d) ==
  /\ proc.consumer = "fallback"
  /\ proc.cur = d
  /\ task' = [task EXCEPT ![d] = [@ EXCEPT !.pc = "clients", !.via = "sync",
                                          !.runs = @ + 1, !.handed = @ + 1]]
  /\ proc' = [proc EXCEPT !.consumer = "sync"]
  /\ UNCHANGED <<msg, rows, em, pipelineVars, call, mainVars, tracker>>

\* a fallback that does not wait for the executor
CB_FallbackDone_ReturnsAtOnce(d) ==
  /\ proc.consumer = "sync"
  /\ proc.cur = d
  /\ proc' = Returned(proc)
  /\ UNCHANGED <<msg, task, rows, em, pipelineVars, call, mainVars, tracker>>

\* the executor is left when the unit has ended; its exception, if any,
\* stays in the future
CB_FallbackDone(d) ==
  /\ proc.consumer = "sync"
  /\ proc.cur = d
  /\ task[d].pc \in Outcomes
  /\ proc' = Returned(proc)
  /\ UNCHANGED <<msg, task, rows, em, pipelineVars, call, mainVars, tracker>>

Callback ==
  \E d \in Msgs :
    \/ Deliver(d) \/ CB_Parse(d) \/ CB_Ack(d) \/ CB_Check(d)
    \/ CB_Submit(d) \/ CB_Fallback(d) \/ CB_FallbackDone(d)

\* ------------------------------------------------ the unit of work (skeleton)
\* a unit on the loop runs while the loop runs and no other unit holds the
\* loop thread: EventPublisher._connect and KafkaEventProducer._connect
\* sleep in the loop thread (time.sleep) until they are connected
LoopFree(d) ==
  task[d].via = "loop" =>
    /\ proc.loop = "running"
    /\ \A e \in Msgs \ {d} :
         ~(task[e].via = "loop" /\ task[e].pc = "clients")

\* the coroutine handle_<stage>_task starts
U_Start(d) ==
  /\ task[d].pc = "pending"
  /\ LoopFree(d)
  /\ task' = [task EXCEPT ![d].pc = "clients", ![d].runs = @ + 1]
  /\ UNCHANGED <<proc, msg, rows, em, pipelineVars, call, mainVars, tracker>>

\* get_session(), EventPublisher(), KafkaEventProducer(), QueueClient(): the
\* constructors return only once connected; then the lookup and the commit
\* of the in-progress status
U_Clients(d) ==
  /\ task[d].pc = "clients"
  /\ LoopFree(d)
  /\ proc.rabbitmq /\ proc.kafka
  /\ rows' = [rows EXCEPT ![d] = DOWNLOADING]
  /\ task' = [task EXCEPT ![d].pc = "op"]
  /\ UNCHANGED <<proc, msg, em, pipelineVars, call, mainVars, tracker>>

\* the operation: a result, None (FAILED is committed), or an exception
U_Operation(d) ==
  /\ task[d].pc = "op"
  /\ LoopFree(d)
  /\ \E r \in {"ok", "none", "raise"} :
       /\ task' = [task EXCEPT ![d].op = r,
                               ![d].pc = CASE r = "ok" -> "publish"
                                           [] r = "none" -> "failed"
                                           [] r = "raise" -> "exc"]
       /\ rows' = IF r = "none" THEN [rows EXCEPT ![d] = FAILED] ELSE rows
  /\ UNCHANGED <<proc, msg, em, pipelineVars, call, mainVars, tracker>>

\* publish_message to the next queue, session.commit() of the completion
U_PublishCommit(d) ==
  /\ task[d].pc = "publish"
  /\ LoopFree(d)
  /\ rows' = [rows EXCEPT ![d] = DOWNLOADED]
  /\ task' = [task EXCEPT ![d].pc = "events"]
  /\ UNCHANGED <<proc, msg, em, pipelineVars, call, mainVars, tracker>>

\* the event block, then the finally block
U_Events(d) ==
  /\ task[d].pc = "events"
  /\ LoopFree(d)
  /\ task' = [task EXCEPT ![d].pc = "done"]
  /\ UNCHANGED <<proc, msg, rows, em, pipelineVars, call, mainVars, tracker>>

\* an except clause that gives up the whole batch: every item in flight is
\* marked FAILED and its unit ended
U_Exception_FailsAll(d) ==
  /\ task[d].pc = "exc"
  /\ LoopFree(d)
  /\ rows' = [e \in Msgs |-> IF task[e].pc \notin ({"none"} \cup Outcomes)
                             THEN FAILED ELSE rows[e]]
  /\ task' = [e \in Msgs |-> IF task[e].pc \notin ({"none"} \cup Outcomes)
                             THEN [task[e] EXCEPT !.pc = "failed"]
                             ELSE task[e]]
  /\ UNCHANGED <<proc, msg, em, pipelineVars, call, mainVars, tracker>>

\* handle_<stage>_task, except Exception: the unit's own session queries its
\* own row, sets FAILED and commits
U_Exception(d) ==
  /\ task[d].pc = "exc"
  /\ LoopFree(d)
  /\ rows' = [rows EXCEPT ![d] = FAILED]
  /\ task' = [task EXCEPT ![d].pc = "failed"]
  /\ UNCHANGED <<proc, msg, em, pipelineVars, call, mainVars, tracker>>

Units ==
  \E d \in Msgs :
    \/ U_Start(d) \/ U_Clients(d) \/ U_Operation(d)
    \/ U_PublishCommit(d) \/ U_Events(d) \/ U_Exception(d)

\* ---------------------------------------------- EventManager.publish_event
ChannelOutcomes == {"accepted", "failed"}

\* EventPublisher.publish: every exception is caught and logged, the call
\* returns None whatever became of the event
publish(o) == "None"

\* KafkaEventProducer.send_event: the record metadata, or None when the send
\* and its one retry failed; it does not raise
send_event(o) == IF o = "accepted" THEN "metadata" ELSE "None"

\* _publish_event_to_rabbitmq / _publish_event_to_kafka: "try: <call>;
\* return True  except Exception: return False"
ReturnedNormally(r) == r # "raised"

\* publish_event is called
EM_Call ==
  /\ em.pc = "idle"
  /\ em' = [em EXCEPT !.pc = "rabbitmq"]
  /\ UNCHANGED <<proc, msg, task, rows, pipelineVars, call, mainVars, tracker>>

\* success_rabbitmq = self._publish_event_to_rabbitmq(...)
EM_Rabbitmq ==
  /\ em.pc = "rabbitmq"
  /\ \E o \in ChannelOutcomes : em' = [em EXCEPT !.pc = "kafka", !.rabbitmq = o]
  /\ UNCHANGED <<proc, msg, task, rows, pipelineVars, call, mainVars, tracker>>

\* success_kafka = self._publish_event_to_kafka(...);
\* return success_rabbitmq or success_kafka
EM_Kafka ==
  /\ em.pc = "kafka"
  /\ \E o \in ChannelOutcomes :
       em' = [em EXCEPT !.pc = "returned", !.kafka = o,
                        !.result = \/ ReturnedNormally(publish(em.rabbitmq))
                                   \/ ReturnedNormally(send_event(o))]
  /\ UNCHANGED <<proc, msg, task, rows, pipelineVars, call, mainVars, tracker>>

EventManager == EM_Call \/ EM_Rabbitmq \/ EM_Kafka

\* ------------------------------------------------- the stage specification
Main == Main_Start \/ Main_RunForever \/ Main_Interrupt \/ Main_Close

Broker ==
  \/ \E d \in Msgs : Upstream_Publish(d)
  \/ LoseConnection
  \/ ConsumeLoopEnds

\* the consume thread, the bridge and the units of one stage process
NextConsume ==
  \/ Main
  \/ Broker
  \/ Callback
  \/ Units

InitStage == InitServices

SpecConsume == InitStage /\ [][NextConsume]_vars

\* the same process with a call of publish_event
NextStage ==
  \/ NextConsume
  \/ EventManager

SpecStage == InitStage /\ [][NextStage]_vars

\* the consume thread and the loop run whenever they can; losing the
\* connection, interrupting the process and publishing are up to the
\* environment
FairConsume ==
  /\ WF_vars(Main_RunForever)
  /\ WF_vars(Callback)
  /\ WF_vars(ConsumeLoopEnds)
  /\ WF_vars(Units)

SpecConsumeFair == InitStage /\ [][NextConsume]_vars /\ FairConsume

\* ------------------------------------------------------------------ claims
\* stages that hand the item to a successor queue
HandoffStages == {s \in Stages : next_queue_map[s] # NoQueue}

StatusOf(v) == db[v].status

\* C1: for every stage with a successor, a handoff message the broker did not
\* accept leaves the item as it was before the operation began (for
\* Discovery: no row), and no item is persisted with a stage's completion
\* status while no successor message for it was ever enqueued.
C1_RejectedHandoffLeavesItemUntouched ==
  /\ \A j \in Jobs :
       disc[j].pc = "done" => disc[j].lost \cap disc[j].rows = {}
  /\ \A s \in HandoffStages, v \in VideoIds :
       (unit[s][v].pc = "done" /\ unit[s][v].handoff \in {"lost", "refused"})
         => unit[s][v].wrote \subseteq {in_progress_status[s]}
  /\ \A v \in VideoIds :
       /\ StatusOf(v) = PENDING => sent["download_queue"][v] > 0
       /\ \A s \in HandoffStages :
            StatusOf(v) = completion_status[s]
              => sent[next_queue_map[s]][v] > 0

\* C2: in the generic driver and in every stage service the completion status
\* of an item is written only after the successor-queue publish for it has
\* returned success; only the terminal stage commits without publishing.
C2_CompletionWrittenAfterConfirmedPublish ==
  \A s \in HandoffStages, v \in VideoIds :
    completion_status[s] \in unit[s][v].wrote => unit[s][v].handoff = "ok"

\* the position of a status in the fixed order of the pipeline
StatusOrder ==
  <<PENDING, DOWNLOADING, DOWNLOADED, AUDIO_EXTRACTING, AUDIO_EXTRACTED,
    TRANSCRIBING, TRANSCRIBED, SUMMARIZING, COMPLETED>>

Rank(st) == CHOOSE i \in 1..Len(StatusOrder) : StatusOrder[i] = st

\* C3: under every interleaving the persisted status of an item never moves
\* backward along the stage order; the only other transition is to FAILED.
C3_StatusNeverMovesBackward ==
  [][\A v \in VideoIds :
       (db[v] # NoRow /\ StatusOf(v) # FAILED /\ db'[v].status # FAILED)
         => Rank(db'[v].status) >= Rank(StatusOf(v))]_vars

\* C4: the unit of a stage never reads an item from the Status Store before
\* the preceding stage's commit of that item is durable.
C4_SuccessorReadsAfterPredecessorCommit ==
  \A s \in Stages, v \in VideoIds : ~unit[s][v].early

\* a unit between its first and its last write of the item: it has written
\* and another write of its own lies ahead
InWriteWindow(s, v) ==
  /\ unit[s][v].wrote # {}
  /\ unit[s][v].pc \in {"op", "publish", "commit", "fail", "exc",
                        "t_get", "t_op", "t_success", "t_failure"}

\* C5: at every instant at most one stage unit is between its first and its
\* last Status Store write for a given item id.
C5_WriteWindowsNeverOverlap ==
  \A v \in VideoIds :
    Cardinality({s \in Stages : InWriteWindow(s, v)}) <= 1

\* every queue is empty and no unit of work is in flight
Quiescent ==
  /\ \A q \in QueueNames, v \in VideoIds : queue[q][v] = 0
  /\ \A j \in Jobs : disc[j].pc \in {"none", "done"}
  /\ \A s \in Stages, v \in VideoIds : unit[s][v].pc \in {"idle", "done"}

\* C6: whenever all stage queues are empty and no unit is in flight, every
\* persisted item is COMPLETED or FAILED.
C6_QuiescentItemsAreSettled ==
  Quiescent =>
    \A v \in VideoIds : db[v] # NoRow => StatusOf(v) \in {COMPLETED, FAILED}

\* the step by which the unit of stage s for v returns
Returns(s, v) == unit[s][v].pc # "done" /\ unit'[s][v].pc = "done"

\* C7: if a stage's operation raises or returns a falsy or None result, the
\* persisted status becomes FAILED, the unit publishes no message for the
\* id, and the operation is not invoked again for that message.
C7_FailedOperationMarksFailed ==
  [][\A s \in Stages, v \in VideoIds :
       unit'[s][v].op \in {"raise", "falsy", "none"}
         => /\ unit'[s][v].handoff # "ok"
            /\ unit'[s][v].opCalls = 1
            /\ Returns(s, v) => db'[v].status = FAILED]_vars

\* C8: if a stage requires an input artifact and that input is missing, the
\* item is marked FAILED and the unit stops without invoking the operation
\* and without publishing a handoff.
C8_MissingInputMarksFailed ==
  [][\A s \in Stages, v \in VideoIds :
       (Returns(s, v) /\ unit'[s][v].input = "missing")
         => /\ db'[v].status = FAILED
            /\ unit'[s][v].opCalls = 0
            /\ unit'[s][v].handoff = "-"]_vars

\* C9: when a message names an id that is absent from the Status Store, the
\* unit ends without creating or modifying any row and without publishing
\* any queue message; it returns normally, so the consumer is free for the
\* next message.
C9_AbsentItemIsSkipped ==
  [][\A s \in Stages, v \in VideoIds :
       (unit[s][v].pc = "start" /\ db[v] = NoRow /\ unit'[s][v] # unit[s][v])
         => /\ unit'[s][v].pc = "done"
            /\ db' = db
            /\ queue' = queue
            /\ sent' = sent]_vars

\* a unit has looked its id up, found no row, and returned
C9_Witness ==
  \E s \in Stages, v \in VideoIds :
    /\ unit[s][v].pc = "done"
    /\ unit[s][v].input = "absent"
    /\ unit[s][v].wrote = {}

\* C10: FAILED is terminal: once the persisted status of an item is FAILED,
\* no stage unit changes it to any other status.
C10_FailedIsTerminal ==
  [][\A v \in VideoIds :
       (db[v] # NoRow /\ StatusOf(v) = FAILED) => db'[v].status = FAILED]_vars

\* the program counters of a unit inside its completion-event step
EventPcs == {"events", "t_event"}

C15_UnacceptedPublishIsReported ==
  /\ \A s \in Stages, v \in VideoIds : unit[s][v].handoff # "lost"
  /\ \A j \in Jobs : disc[j].lost = {}

\* C19: a unit cancelled by a shutdown before its publish-and-commit step
\* leaves the persisted row of its item as it was when the message was
\* received: the cancelled unit has committed no write to it.
C19_CancelledUnitLeavesItemUntouched ==
  \A s \in Stages, v \in VideoIds :
    unit[s][v].op = "cancelled" => unit[s][v].wrote = {}

\* C11: the consumer acknowledges a delivered message before the unit of work
\* for it is handed over or starts, and the acknowledgement stands whatever
\* the unit does afterwards: a unit exists only for an acknowledged message,
\* and an acknowledged message is never nacked, requeued or redelivered.
C11_AckBeforeUnitAndNeverReverted ==
  [][\A d \in Msgs :
       /\ task'[d].pc # "none" => msg'[d].state = "acked"
       /\ msg[d].state = "acked" => msg'[d].state = "acked"]_vars

\* C13: with both event channels unavailable for the whole run, a unit whose
\* operation succeeds still starts, performs its operation, publishes its
\* handoff and commits: every unit handed to a running process eventually has
\* its item at the completion status, unless its operation failed or the
\* process was shut down.
C13_AdvancesWithoutEventChannels ==
  \A d \in Msgs :
    (task[d].pc = "pending" /\ ~proc.rabbitmq /\ ~proc.kafka)
      ~> \/ rows[d] = DOWNLOADED
         \/ task[d].op \in {"none", "raise"}
         \/ proc.loop \in {"stopped", "closed"}

\* C14: publish_event tries both channels on every call whatever the other
\* channel did, and returns True exactly when at least one channel accepted
\* the event (False when both failed).
C14_PublishEventReportsAcceptance ==
  em.pc = "returned" =>
    /\ em.rabbitmq \in ChannelOutcomes
    /\ em.kafka \in ChannelOutcomes
    /\ em.result = (em.rabbitmq = "accepted" \/ em.kafka = "accepted")

\* C16: the consume loop of a running stage never stops for good: after its
\* connection is lost it reconnects and consumes again from its queue (or the
\* process is being shut down).
C16_ConsumeLoopResumes ==
  (proc.link = "lost")
    ~> \/ (proc.consumer = "idle" /\ proc.link = "up")
       \/ proc.loop \in {"stopped", "closed"}

\* the states of a unit whose coroutine has been started
Started == {"clients", "op", "publish", "events", "exc", "done", "failed"}

C18_ExceptionTouchesOnlyOwnItem ==
  /\ [][\A d \in Msgs :
          (task[d].pc = "exc" /\ task'[d].pc = "failed") =>
            /\ rows'[d] = FAILED
            /\ \A e \in Msgs \ {d} : rows'[e] = rows[e] /\ task'[e] = task[e]]_vars
  /\ \A d \in Msgs, e \in Msgs :
       (d # e /\ task[d].pc = "failed" /\ task[d].op = "raise"
              /\ task[e].pc \in {"pending"} \cup (Started \ Outcomes))
         ~> (task[e].pc \in Outcomes \/ proc.loop \in {"stopped", "closed"})

\* a unit has failed by an exception while another unit is in its operation
C18_Witness ==
  \E d \in Msgs, e \in Msgs :
    /\ d # e
    /\ task[d].pc = "failed" /\ task[d].op = "raise" /\ rows[d] = FAILED
    /\ task[e].pc = "op" /\ rows[e] = DOWNLOADING

WithCaptions == UNION {disc[j].captions : j \in Jobs}

\* C21: an item that has captions is handed by Download to the summarization
\* queue only: no message for it is ever accepted by the audio-extraction or
\* the transcription queue, and once Download has written DOWNLOADED for it
\* its handoff is in the summarization queue's history.
C21_CaptionedItemSkipsAudioStages ==
  \A v \in WithCaptions :
    /\ sent["audio_extraction_queue"][v] = 0
    /\ sent["transcription_queue"][v] = 0
    /\ (DOWNLOADED \in unit["download"][v].wrote
          => sent["summarization_queue"][v] > 0)

\* ------------------------------------------------- the pipeline, scheduled
\* Every stage is a process of its own with its own consume thread and event
\* loop, and the broker delivers a waiting message to a connected consumer:
\* none of them waits for ever while it can take a step.
FairServices ==
  /\ WF_vars(Discovery)
  /\ WF_vars(Consumers)
  /\ WF_vars(DownloadService)
  /\ WF_vars(AudioExtractionService)
  /\ WF_vars(TranscriptionService)
  /\ WF_vars(SummarizationService)

SpecServicesFair == SpecServices /\ FairServices

\* nothing has failed: no broker or channel fault, every collaborator call
\* returned its result, no candidate was skipped for its details
NoFailure ==
  /\ faults = 0
  /\ \A s \in Stages, v \in VideoIds : unit[s][v].op \in {"-", "ok"}
  /\ \A j \in Jobs : disc[j].skipped = {} /\ disc[j].lost = {}

\* every submitted job asks for one item
LimitOne == \A j \in Jobs : disc[j].pc # "none" => disc[j].limit = 1

\* C22: with no failures and fair scheduling a job with limit 1 creates one
\* item, no stage's operation is called for it before the preceding stage's
\* operation has returned its output, and the item eventually has status
\* COMPLETED and keeps it for ever.
C22_LimitOneJobCompletesOneItem ==
  [](NoFailure /\ LimitOne)
    => /\ <>[](/\ Cardinality({v \in VideoIds : db[v] # NoRow}) = 1
               /\ \A v \in VideoIds : db[v] # NoRow => StatusOf(v) = COMPLETED)
       /\ [](\A s \in Stages \ {"download"}, v \in VideoIds :
               unit[s][v].opCalls > 0 => unit[Predecessor(s)][v].op = "ok")

\* ------------------------------------------- the discovery process, alone
\* one discovery process receiving MaxRuns discovery messages for the channel
InitDiscovery == InitWith(Runs) /\ impl = [s \in Stages |-> "app"]

\* with the download stage that consumes what the runs publish
NextDiscovery ==
  \/ DiscoveryOf(Runs)
  \/ \E v \in VideoIds : Consume("download", v)
  \/ DownloadService

SpecDiscovery == InitDiscovery /\ [][NextDiscovery]_vars

\* C23: for any id at most one row is created and at most one download
\* message is published, whatever later discovery runs list it again; a run
\* that finds the id in the table goes on to the next candidate and changes
\* neither the table nor the queue.
C23_OneRowAndOneMessagePerId ==
  /\ [](\A v \in VideoIds :
          /\ Cardinality({j \in DOMAIN disc : v \in disc[j].rows}) <= 1
          /\ sent["download_queue"][v] <= 1)
  /\ [][\A j \in DOMAIN disc :
          (/\ disc[j].pc = "check"
           /\ db[Entries[disc[j].i]] # NoRow
           /\ disc'[j] # disc[j])
            => /\ disc'[j] = NextEntry(disc[j])
               /\ UNCHANGED <<db, queue, sent>>]_vars

\* C24: a discovery run with limit N creates at most N rows and publishes at
\* most N download messages, for every N >= 0, and scans a candidate only
\* while fewer than N have been accepted.
C24_LimitBoundsRowsAndMessages ==
  \A j \in DOMAIN disc :
    disc[j].limit # NoLimit
      => /\ Cardinality(disc[j].rows) <= disc[j].limit
         /\ Cardinality(disc[j].msgs) <= disc[j].limit
         /\ disc[j].pc \in {"check", "fetch", "publish", "commit"}
              => disc[j].count < disc[j].limit

\* ------------------------------------------------ a stage invoked once more
\* the stages in pipeline order, and the artifact each one produces
StageOrder == <<"download", "audio_extraction", "transcription", "summarization">>

Output(s) ==
  CASE s = "download" -> "video"
    [] s = "audio_extraction" -> "audio"
    [] s = "transcription" -> "transcription"
    [] s = "summarization" -> "summary"

\* the output artifact of stage s for v exists (the summary is a document of
\* the summaries collection, the others are files)
HasOutput(s, v) ==
  IF s = "summarization" THEN v \in summaries ELSE Output(s) \in files[v]

\* what discovery and a pass without failures through the first k stages
\* have left behind for every listed id, with a message for the id waiting
\* in the queue of stage StageOrder[i]: the handoff of stage k when
\* i = k + 1, a second copy of a message already handled when i <= k
AfterPass(k, i) ==
  LET done == {StageOrder[n] : n \in 1..k}
      fed == {StageOrder[n] : n \in 1..(IF k = 4 THEN 4 ELSE k + 1)}
      again == IF i <= k THEN queue_map[StageOrder[i]] ELSE NoQueue IN
  /\ InitProcess
  /\ db = [v \in VideoIds |->
             Video(IF k = 0 THEN PENDING ELSE completion_status[StageOrder[k]],
                   IF k >= 1 THEN VideoPath ELSE NoPath,
                   IF k >= 2 THEN AudioPath ELSE NoPath)]
  /\ files = [v \in VideoIds |->
                {Output(s) : s \in done \ {"summarization"}}]
  /\ summaries = IF k = 4 THEN VideoIds ELSE {}
  /\ queue = [q \in QueueNames |->
                [v \in VideoIds |->
                   IF q = queue_map[StageOrder[i]] THEN 1 ELSE 0]]
  /\ sent = [q \in QueueNames |->
               [v \in VideoIds |->
                  (IF \E s \in fed : queue_map[s] = q THEN 1 ELSE 0)
                  + (IF q = again THEN 1 ELSE 0)]]
  /\ eventLog = {<<e, v, c>> : e \in {"VideoDiscovered"}
                                      \cup {event_map[s] : s \in done},
                               v \in VideoIds, c \in {"rabbitmq", "kafka"}}
  /\ disc = [j \in Jobs |->
               [IdleJob EXCEPT !.pc = "done", !.i = Len(Entries),
                               !.count = Len(Entries),
                               !.rows = VideoIds, !.msgs = VideoIds]]
  /\ unit = [s \in Stages |-> [v \in VideoIds |-> IdleUnit]]
  /\ impl = [s \in Stages |-> "app"]
  /\ faults = 0

InitAgain ==
  \E k \in 0..4 : \E i \in 1..(IF k = 4 THEN 4 ELSE k + 1) : AfterPass(k, i)

NextAgain ==
  \/ Consumers
  \/ DownloadService
  \/ AudioExtractionService
  \/ TranscriptionService
  \/ SummarizationService

SpecAgain == InitAgain /\ [][NextAgain]_vars

\* C25: in every stage, an operation invoked for an id whose output artifact
\* exists calls no external collaborator and returns the artifact.
C25_SecondInvocationCallsNothing ==
  [][\A s \in Stages, v \in VideoIds :
       (/\ unit[s][v].pc = "op"
        /\ unit'[s][v].pc # "op"
        /\ HasOutput(s, v))
         => /\ unit'[s][v].opCalls = unit[s][v].opCalls
            /\ unit'[s][v].op = "ok"]_vars

\* ------------------------------------------------- pipeline/AudioTranscriber
\* most chunks an audio file is split into
MaxChunks == 3

\* a text is a sequence of tokens <<word, chunk>>; the words of chunk i are
\* one token, a fixed string has chunk 0
Word(i) == <<"text", i>>
NL == <<"\n", 0>>
SP == <<" ", 0>>

\* an Optional[str]
PyNone == [none |-> TRUE, text |-> <<>>]
Str(t) == [none |-> FALSE, text |-> t]

\* what happens to the transcription of one chunk: recognize_google returns
\* a text, raises UnknownValueError, RequestError or another Exception, or
\* the executor's future itself ends with an exception
ChunkOutcomes ==
  {"text", "UnknownValueError", "RequestError", "Exception", "future_exception"}

\* _transcribe_chunk_sync: the text and a newline, or a placeholder line; the
\* exception of a future is passed on by gather(return_exceptions=True)
transcribe_chunk_sync(i, o) ==
  CASE o = "text" -> <<Word(i), NL>>
    [] o = "UnknownValueError" -> <<<<"[unintelligible]", 0>>, NL>>
    [] o = "RequestError" -> <<<<"[request error]", 0>>, NL>>
    [] o = "Exception" -> <<<<"[unexpected transcription error]", 0>>, NL>>
    [] o = "future_exception" -> <<<<"exception", -1>>>>

isinstance_Exception(r) == r = <<<<"exception", -1>>>>

\* _handle_transcription_results with the failed chunks left out
handle_transcription_results_DropsFailed(transcribed_chunks) ==
  SelectSeq(transcribed_chunks, LAMBDA r : r[1] = Word(r[1][2]))

\* _handle_transcription_results: an exception becomes a placeholder line
handle_transcription_results(transcribed_chunks) ==
  [i \in 1..Len(transcribed_chunks) |->
     IF isinstance_Exception(transcribed_chunks[i])
     THEN <<<<"[transcription error]", 0>>, NL>>
     ELSE transcribed_chunks[i]]

\* " ".join(final_chunks)
RECURSIVE Join(_)
Join(chunks) ==
  IF Len(chunks) = 0 THEN <<>>
  ELSE IF Len(chunks) = 1 THEN chunks[1]
  ELSE chunks[1] \o <<SP>> \o Join(Tail(chunks))

\* transcribe_audio: None when the audio file does not exist; else the chunks
\* are transcribed and their lines joined
transcribe_audio(exists, outcomes) ==
  IF ~exists THEN PyNone
  ELSE Str(Join(handle_transcription_results(
             [i \in 1..Len(outcomes) |->
                transcribe_chunk_sync(i, outcomes[i])])))

\* the segments of a text: the lines ended by a newline, without the blank
\* that separates a line from the one before
RECURSIVE Segments(_, _)
Segments(t, line) ==
  IF Len(t) = 0 THEN (IF Len(line) = 0 THEN <<>> ELSE <<line>>)
  ELSE IF Head(t) = NL THEN <<line>> \o Segments(Tail(t), <<>>)
  ELSE IF Head(t) = SP /\ Len(line) = 0 THEN Segments(Tail(t), line)
  ELSE Segments(Tail(t), Append(line, Head(t)))

Placeholders ==
  {<<"[unintelligible]", 0>>, <<"[request error]", 0>>,
   <<"[unexpected transcription error]", 0>>, <<"[transcription error]", 0>>}

\* ------------------------------------------------------- library functions
\* a function is called with arguments drawn from its domain
Call_transcribe_audio ==
  /\ call = NoCall
  /\ \E exists \in BOOLEAN, k \in 0..MaxChunks :
       \E outcomes \in [1..k -> ChunkOutcomes] :
         call' = [fn |-> "transcribe_audio", exists |-> exists,
                  outcomes |-> outcomes,
                  result |-> transcribe_audio(exists, outcomes)]
  /\ UNCHANGED <<pipelineVars, stageVars, mainVars, tracker>>


\* a chunk whose transcription succeeded
Succeeded(o) == o = "text"

\* C26: transcribing an audio file split into k chunks returns a text of
\* exactly k segments in chunk order: the segment of a chunk that succeeded is
\* that chunk's own text, the segment of a chunk that failed is a placeholder;
\* and whenever a chunk succeeded the call returns a text, not None.
C26_OneSegmentPerChunkInOrder ==
  (call.fn = "transcribe_audio" /\ call.exists)
    => LET k == Len(call.outcomes)
           segs == Segments(call.result.text, <<>>) IN
       /\ ~call.result.none
       /\ Len(segs) = k
       /\ \A i \in 1..k :
            IF Succeeded(call.outcomes[i])
            THEN segs[i] = <<Word(i)>>
            ELSE Len(segs[i]) = 1 /\ segs[i][1] \in Placeholders

C26_Witness ==
  /\ call.fn = "transcribe_audio"
  /\ call.exists
  /\ Len(call.outcomes) = 3
  /\ Succeeded(call.outcomes[1])
  /\ ~Succeeded(call.outcomes[2])
  /\ Succeeded(call.outcomes[3])
  /\ Len(Segments(call.result.text, <<>>)) = 3

\* every chunk of the call failed
AllFailed(outcomes) ==
  /\ Len(outcomes) > 0
  /\ \A i \in 1..Len(outcomes) : ~Succeeded(outcomes[i])

\* C27: transcribe_audio returns None (the transcription stage then marks
\* the item FAILED and sends no handoff) exactly when every chunk failed.
C27_NoneExactlyWhenAllChunksFail ==
  call.fn = "transcribe_audio"
    => (call.result.none <=> (call.exists /\ AllFailed(call.outcomes)))

\* ---------------------------------------------------------- utils/db_manager
\* most keyword arguments of one update_video call
MaxFields == 2

\* the columns of the videos table that the model keeps
Columns == {"status", "video_file_path", "audio_file_path"}

\* names that are attributes of a Video object without being columns (the
\* declarative base gives every instance `metadata` and `registry`)
ClassAttributes == {"metadata"}

FieldNames == Columns \cup ClassAttributes \cup {"no_such_field"}

\* hasattr(video, field_name)
hasattr(name) == name \in Columns \cup ClassAttributes

\* the keyword arguments, in call order: pairs <<name, value>>
FieldLists ==
  {fs \in UNION {[1..n -> FieldNames \X {"new"}] : n \in 0..MaxFields} :
     \A i, j \in 1..Len(fs) : i # j => fs[i][1] # fs[j][1]}

\* setattr for every field in turn, on the object of the call's own session;
\* the loop returns at the first name that is no attribute
RECURSIVE SetFields(_, _)
SetFields(pend, fs) ==
  IF Len(fs) = 0 THEN [ok |-> TRUE, pend |-> pend]
  ELSE IF ~hasattr(Head(fs)[1]) THEN [ok |-> FALSE, pend |-> pend]
  ELSE SetFields(IF Head(fs)[1] \in Columns
                 THEN [pend EXCEPT ![Head(fs)[1]] = Head(fs)[2]]
                 ELSE pend,
                 Tail(fs))

\* DatabaseManager.update_video: False when there is no row; False, with the
\* session closed uncommitted, at a name that is no attribute; else commit
\* and True, or rollback and False when the commit raises
DatabaseManager_update_video(row, fs, commit_ok) ==
  IF row = NoRow THEN [ret |-> FALSE, row |-> row]
  ELSE LET r == SetFields(NoPending, fs) IN
       IF ~r.ok THEN [ret |-> FALSE, row |-> row]
       ELSE IF commit_ok THEN [ret |-> TRUE, row |-> Flush(row, r.pend)]
       ELSE [ret |-> FALSE, row |-> row]

Call_update_video ==
  /\ call = NoCall
  /\ \E row \in {NoRow, Video(PENDING, NoPath, NoPath)},
        fs \in FieldLists, commit_ok \in BOOLEAN :
       call' = [fn |-> "update_video", row |-> row, fields |-> fs,
                result |-> DatabaseManager_update_video(row, fs, commit_ok)]
  /\ UNCHANGED <<pipelineVars, stageVars, mainVars, tracker>>

IdLen == 2
MaxTitle == 2
IdChars == {"x", "-"}
TitleChars == {"-", "/"}
Channels == {"c1", "c2"}
YouTubeIds == [1..IdLen -> IdChars]
Titles == UNION {[1..n -> TitleChars] : n \in 0..MaxTitle}
UploadDates == {<<>>, <<"0", "1", "_">>}
Items ==
  [channel : Channels, video_title : Titles, upload_date : UploadDates,
   video_id : YouTubeIds]

\* the characters re.sub removes from a file name
InvalidChars == {"\\", "/", ":", "*", "?", "\"", "<", ">", "|"}
MaxFilename == 100

RECURSIVE Remove(_, _)
Remove(s, chars) ==
  IF Len(s) = 0 THEN <<>>
  ELSE IF Head(s) \in chars THEN Remove(Tail(s), chars)
  ELSE <<Head(s)>> \o Remove(Tail(s), chars)

\* FileManager._sanitize_filename
sanitize_filename(filename) ==
  LET sanitized == Remove(filename, InvalidChars) IN
  SubSeq(sanitized, 1, IF Len(sanitized) < MaxFilename THEN Len(sanitized)
                       ELSE MaxFilename)

\* a base file name without the video id
get_base_filename_NoId(video_data) ==
  sanitize_filename(video_data.video_title) \o <<"-">>
    \o video_data.upload_date

\* FileManager.get_base_filename: "<title>-<date>-<id>"
get_base_filename(video_data) ==
  sanitize_filename(video_data.video_title) \o <<"-">>
    \o video_data.upload_date \o <<"-">> \o video_data.video_id

\* FileManager._setup_directories: one directory per kind and channel
setup_directories(channel_id, is_openai_runtime) ==
  [videos |-> <<"data", "channel_videos", channel_id>>,
   audios |-> <<"data", "channel_audios", channel_id>>,
   transcriptions |-> <<"data", "channel_transcriptions", channel_id>>,
   summaries |-> IF is_openai_runtime
                 THEN <<"data", "channel_summaries", channel_id>>
                 ELSE <<"data", "channel_summaries", channel_id,
                        "experimental">>]

\* a path: the directory and the file name in it
Path(dir, name, ext) == [dir |-> dir, name |-> name \o <<ext>>]

\* FileManager.get_video_paths, of the manager made for the item's channel
get_video_paths(video_data, is_openai_runtime) ==
  LET paths == setup_directories(video_data.channel, is_openai_runtime)
      base_filename == get_base_filename(video_data) IN
  [video |-> Path(paths.videos, base_filename, ".mp4"),
   audio |-> Path(paths.audios, base_filename, ".wav"),
   transcription |-> Path(paths.transcriptions, base_filename, ".txt"),
   summary |-> Path(paths.summaries, base_filename, ".txt")]

ArtifactKinds == {"video", "audio", "transcription", "summary"}

Call_get_video_paths ==
  /\ call = NoCall
  /\ \E a, b \in Items, is_openai_runtime \in BOOLEAN :
       call' = [fn |-> "get_video_paths", a |-> a, b |-> b,
                pa |-> get_video_paths(a, is_openai_runtime),
                pb |-> get_video_paths(b, is_openai_runtime)]
  /\ UNCHANGED <<pipelineVars, stageVars, mainVars, tracker>>

NextCalls ==
  \/ Call_transcribe_audio
  \/ Call_update_video
  \/ Call_get_video_paths

SpecCalls == InitServices /\ [][NextCalls]_vars

video_data(d) ==
  [channel |-> "c1",
   video_title |-> IF d = "a" THEN <<"/", "-">> ELSE <<>>,
   upload_date |-> <<>>,
   video_id |-> [n \in 1..IdLen |-> IF d = "b" /\ n = 1 THEN "-" ELSE "x"]]

video_paths(d) == get_video_paths(video_data(d), config.is_openai_runtime)

WrapperOver(w) == w \in {"none", "halted", "done", "cleaned"}

\* main: read the Config, discover, start one wrapper per discovered video
MainRun ==
  /\ \A d \in Discovered : WrapperOver(wrapper[d])
  /\ config' \in [is_openai_runtime : BOOLEAN, is_save_only_summaries : BOOLEAN]
  /\ wrapper' = [d \in Discovered |-> "start"]
  /\ UNCHANGED <<disk, pipelineVars, stageVars, call, tracker>>

\* VideoProcessor._get_transcription: the transcription file if it exists,
\* else the captions (written as the transcription), else the audio path
VP_GetTranscription(d) ==
  /\ wrapper[d] = "start"
  /\ IF video_paths(d).transcription \in disk
     THEN /\ \E empty \in BOOLEAN :
               wrapper' = [wrapper EXCEPT ![d] =
                             IF empty THEN "halted" ELSE "summarize"]
          /\ disk' = disk
     ELSE \/ /\ wrapper' = [wrapper EXCEPT ![d] = "summarize"]
             /\ disk' = disk \cup {video_paths(d).transcription}
          \/ /\ wrapper' = [wrapper EXCEPT ![d] = "download"]
             /\ disk' = disk
  /\ UNCHANGED <<config, pipelineVars, stageVars, call, tracker>>

\* VideoProcessor._download_video: download unless the file exists
VP_DownloadVideo(d) ==
  /\ wrapper[d] = "download"
  /\ \E r \in {"ok", "failed"} :
       /\ disk' = IF r = "ok" THEN disk \cup {video_paths(d).video} ELSE disk
       /\ wrapper' = [wrapper EXCEPT ![d] =
                        IF video_paths(d).video \in disk'
                        THEN "extract" ELSE "halted"]
  /\ UNCHANGED <<config, pipelineVars, stageVars, call, tracker>>

\* VideoProcessor._extract_audio: extract unless the file exists
VP_ExtractAudio(d) ==
  /\ wrapper[d] = "extract"
  /\ \E r \in {"ok", "failed"} :
       /\ disk' = IF r = "ok" THEN disk \cup {video_paths(d).audio} ELSE disk
       /\ wrapper' = [wrapper EXCEPT ![d] =
                        IF video_paths(d).audio \in disk'
                        THEN "transcribe" ELSE "halted"]
  /\ UNCHANGED <<config, pipelineVars, stageVars, call, tracker>>

\* VideoProcessor._transcribe_audio: a text is saved, no text ends the wrapper
VP_TranscribeAudio(d) ==
  /\ wrapper[d] = "transcribe"
  /\ \/ /\ disk' = disk \cup {video_paths(d).transcription}
        /\ wrapper' = [wrapper EXCEPT ![d] = "summarize"]
     \/ /\ disk' = disk
        /\ wrapper' = [wrapper EXCEPT ![d] = "halted"]
  /\ UNCHANGED <<config, pipelineVars, stageVars, call, tracker>>

\* process_video_wrapper: summary_call, then the summary file is written
W_Summarize(d) ==
  /\ wrapper[d] = "summarize"
  /\ \E summary_text \in {"text", "none"} :
       wrapper' = [wrapper EXCEPT ![d] =
                     IF summary_text = "none" THEN "halted" ELSE "write"]
  /\ UNCHANGED <<disk, config, pipelineVars, stageVars, call, tracker>>

W_WriteSummary(d) ==
  /\ wrapper[d] = "write"
  /\ disk' = disk \cup {video_paths(d).summary}
  /\ wrapper' = [wrapper EXCEPT ![d] =
                   IF config.is_save_only_summaries THEN "cleanup" ELSE "done"]
  /\ UNCHANGED <<config, pipelineVars, stageVars, call, tracker>>

\* cleanup that does not skip the summary
cleanup_intermediate_files_All(fs, paths, failing) ==
  fs \ {paths[k] : k \in ArtifactKinds \ failing}

\* FileManager.cleanup_intermediate_files: every path of the dictionary but
\* the one under "summary" is removed if it exists; a failing os.remove is
\* logged and leaves its file
cleanup_intermediate_files(fs, paths, failing) ==
  fs \ {paths[k] : k \in (ArtifactKinds \ {"summary"}) \ failing}

W_Cleanup(d) ==
  /\ wrapper[d] = "cleanup"
  /\ \E failing \in SUBSET ArtifactKinds :
       disk' = cleanup_intermediate_files(disk, video_paths(d), failing)
  /\ wrapper' = [wrapper EXCEPT ![d] = "cleaned"]
  /\ UNCHANGED <<config, pipelineVars, stageVars, call, tracker>>

NextMain ==
  \/ MainRun
  \/ \E d \in Discovered :
       \/ VP_GetTranscription(d)
       \/ VP_DownloadVideo(d)
       \/ VP_ExtractAudio(d)
       \/ VP_TranscribeAudio(d)
       \/ W_Summarize(d)
       \/ W_WriteSummary(d)
       \/ W_Cleanup(d)

SpecMain == InitServices /\ [][NextMain]_vars

\* the summary files, in either summaries directory
IsSummary(p) == p.dir[2] = "channel_summaries"

\* the video, audio and transcription paths of a video
Intermediate(d) ==
  {video_paths(d)[k] : k \in ArtifactKinds \ {"summary"}}

FutureDone == {"done", "failed", "cancelled"}

OtherVars == <<pipelineVars, stageVars, call, mainVars>>

\* schedule_task, consumer thread: with a loop that is not closed the unit
\* is given to it (run_coroutine_threadsafe); else it is submitted to a
\* ThreadPoolExecutor running asyncio.run
ST_Schedule(u) ==
  /\ tracker.step = "idle"
  /\ tracker.future[u] = "none"
  /\ tracker' = [tracker EXCEPT
                   !.cur = u,
                   !.future[u] = "running",
                   !.via[u] = IF tracker.loop = "closed" THEN "sync" ELSE "loop",
                   !.step = IF tracker.loop = "closed" THEN "sync_add" ELSE "add"]
  /\ UNCHANGED OtherVars

\* self.internal_tasks.add(task), loop path
ST_Add(u) ==
  /\ tracker.step = "add"
  /\ tracker.cur = u
  /\ tracker' = [tracker EXCEPT !.internal_tasks = @ \cup {u},
                                !.step = "add_done_callback"]
  /\ UNCHANGED OtherVars

\* _on_task_complete: self.internal_tasks.discard(task)
on_task_complete(tasks, u) == tasks \ {u}

\* task.add_done_callback(self._on_task_complete): a future that is done
\* already calls it at once, in the consumer thread
ST_AddDoneCallback(u) ==
  /\ tracker.step = "add_done_callback"
  /\ tracker.cur = u
  /\ tracker' =
       IF tracker.future[u] \in FutureDone
       THEN [tracker EXCEPT
               !.internal_tasks = on_task_complete(@, u),
               !.step = "idle", !.cur = 0]
       ELSE [tracker EXCEPT !.callbacks = @ \cup {u},
                            !.step = "idle", !.cur = 0]
  /\ UNCHANGED OtherVars

\* fallback: the FutureTask object is added inside the with block; it has no
\* done callback
ST_SyncAdd(u) ==
  /\ tracker.step = "sync_add"
  /\ tracker.cur = u
  /\ tracker' = [tracker EXCEPT !.internal_tasks = @ \cup {u},
                                !.step = "sync_exit"]
  /\ UNCHANGED OtherVars

\* fallback: leaving the with block waits for the executor's future; then
\* "return task"
ST_SyncExit(u) ==
  /\ tracker.step = "sync_exit"
  /\ tracker.cur = u
  /\ tracker.future[u] \in FutureDone
  /\ tracker' = [tracker EXCEPT !.step = "idle", !.cur = 0]
  /\ UNCHANGED OtherVars

\* the unit ends (its result or its exception is set): the done callbacks of
\* its future run
ST_UnitEnds(u) ==
  /\ tracker.future[u] = "running"
  /\ tracker.via[u] = "loop" => tracker.loop = "running"
  /\ \E o \in {"done", "failed"} :
       tracker' = [tracker EXCEPT
                     !.future[u] = o,
                     !.internal_tasks = IF u \in tracker.callbacks
                                        THEN on_task_complete(@, u) ELSE @]
  /\ UNCHANGED OtherVars

\* main, at the interrupt: the tasks of the loop are cancelled, the loop is
\* closed
ST_LoopCloses ==
  /\ tracker.loop = "running"
  /\ LET cancelled == {u \in Scheduled : /\ tracker.via[u] = "loop"
                                         /\ tracker.future[u] = "running"} IN
     tracker' = [tracker EXCEPT
                   !.loop = "closed",
                   !.future = [u \in Scheduled |->
                                 IF u \in cancelled THEN "cancelled" ELSE @[u]],
                   !.internal_tasks = @ \ (cancelled \cap tracker.callbacks)]
  /\ UNCHANGED OtherVars

\* t.done() of a task of the set: a future of the loop answers; the
\* FutureTask of the fallback has "done" as a function of no argument in its
\* class, so the call on the instance raises TypeError
done(u) ==
  IF tracker.via[u] = "sync" THEN "TypeError"
  ELSE IF tracker.future[u] \in FutureDone THEN "True" ELSE "False"

\* the units that were scheduled and have not ended
StillRunning == {u \in Scheduled : tracker.future[u] = "running"}

CountResult(e, n) ==
  [called |-> TRUE, raised |-> e, n |-> n,
   running |-> Cardinality(StillRunning), during |-> tracker.step]

\* get_internal_task_count: drop the tasks that are done, return the size
get_internal_task_count ==
  /\ IF \E u \in tracker.internal_tasks : done(u) = "TypeError"
     THEN tracker' = [tracker EXCEPT !.count = CountResult("TypeError", 0)]
     ELSE LET completed_tasks ==
                {t \in tracker.internal_tasks : done(t) = "True"} IN
          tracker' = [tracker EXCEPT
                        !.internal_tasks = @ \ completed_tasks,
                        !.count = CountResult("-", Cardinality(
                                    tracker.internal_tasks \ completed_tasks))]
  /\ UNCHANGED OtherVars

NextTracker ==
  \/ \E u \in Scheduled :
       \/ ST_Schedule(u)
       \/ ST_Add(u)
       \/ ST_AddDoneCallback(u)
       \/ ST_SyncAdd(u)
       \/ ST_SyncExit(u)
       \/ ST_UnitEnds(u)
  \/ ST_LoopCloses
  \/ get_internal_task_count

SpecTracker == InitServices /\ [][NextTracker]_vars

\* C31: whenever the consumer thread is not inside schedule_task, the task
\* set holds exactly the units that were scheduled and are not done, and a
\* call of get_internal_task_count made then returns a number (it does not
\* raise): the number of units still running.
C31_TaskSetTracksRunningUnits ==
  /\ tracker.step = "idle" => tracker.internal_tasks = StillRunning
  /\ tracker.count.called /\ tracker.count.during = "idle"
       => /\ tracker.count.raised = "-"
          /\ tracker.count.n = tracker.count.running


\* C32: a unit of work is handed over (to the loop or to the fallback) only
\* for a message whose basic_ack succeeded, whichever callback style the
\* process uses: service callback, AsyncWorker, or
\* schedule_task_with_immediate_ack.
C32_UnitOnlyAfterSuccessfulAck ==
  \A d \in Msgs : task[d].handed > 0 => msg[d].state = "acked"


\* a step in which the callback of message d sends basic_ack
HandlerAcks(d) == CB_Ack(d) /\ proc.link = "up"

\* a step in which an exception leaves the callback of message d
HandlerRaises(d) ==
  \/ CB_Parse(d) /\ msg[d].body # "json"
  \/ CB_Submit(d) /\ proc.loop = "closed"

\* a step in which resilient_consumer.wrapper sends basic_ack: the callback
\* raised for the max_retries-th time
WrapperAcks(d) ==
  /\ HandlerRaises(d)
  /\ proc.style = "service"
  /\ proc.retries + 1 >= max_retries
  /\ proc.link = "up"

InFlight(d) == task[d].handed > 0 /\ task[d].pc \notin Outcomes

\* C34: the step that hands a unit to the loop returns the consumer to pika
\* at once, whatever state the unit is in, so that it takes the next message;
\* the consumer waits for a unit only in the fallback, and leaves the
\* fallback only when that unit has ended.
C34_HandOverDoesNotWait ==
  [][\A d \in Msgs :
       /\ (task'[d].handed > task[d].handed /\ task'[d].via = "loop")
            => /\ proc'.consumer = "idle"
               /\ InFlight(d)'
       /\ proc.consumer = "sync" => task[proc.cur].via = "sync"
       /\ (proc.cur = d /\ proc.consumer = "sync" /\ proc'.consumer # "sync")
            => task[d].pc \in Outcomes]_vars

\* two units in flight on the loop at once: the second message was taken and
\* acknowledged while the unit of the first had started and not ended
C34_Witness ==
  /\ \A d \in {1, 2} :
       /\ InFlight(d)
       /\ task[d].via = "loop"
       /\ msg[d].state = "acked"
  /\ task[1].pc = "op"
  /\ task[2].pc = "pending"
  /\ proc.consumer = "idle"


\* --------------------------- AudioTranscriber._process_chunks_concurrently
\* most chunks of the audio file of one unit
PoolChunks == 5

\* ThreadPoolExecutor(max_workers=4), one per AudioTranscriber, and the
\* transcription service makes one AudioTranscriber per unit
max_workers == 4

\* the chunks whose transcription is in progress in a worker thread
InProgress(c) == {i \in 1..c.n : c.chunk[i] = "running"}

\* transcribe_audio has split the file in n chunks and awaits
\* _process_chunks_concurrently
PC_Call ==
  /\ call = NoCall
  /\ \E n \in 0..PoolChunks :
       call' = [fn |-> "process_chunks_concurrently", n |-> n, submitted |-> 0,
                chunk |-> [i \in 1..n |-> "new"], done |-> FALSE,
                result |-> <<>>]
  /\ UNCHANGED <<pipelineVars, stageVars, mainVars, tracker>>

\* loop.run_in_executor(self.executor, self._transcribe_chunk_sync, ...) for
\* the next chunk: the work item is queued
PC_Submit ==
  /\ call.fn = "process_chunks_concurrently"
  /\ call.submitted < call.n
  /\ call' = [call EXCEPT !.submitted = @ + 1,
                          !.chunk[call.submitted + 1] = "queued"]
  /\ UNCHANGED <<pipelineVars, stageVars, mainVars, tracker>>

\* a pool that starts a thread for every work item
PC_WorkerTakes_Unbounded(i) ==
  /\ call.fn = "process_chunks_concurrently"
  /\ i <= call.n
  /\ call.chunk[i] = "queued"
  /\ call' = [call EXCEPT !.chunk[i] = "running"]
  /\ UNCHANGED <<pipelineVars, stageVars, mainVars, tracker>>

\* a worker thread of the pool takes the oldest queued work item; the pool
\* has at most max_workers threads, each running one item at a time
PC_WorkerTakes(i) ==
  /\ call.fn = "process_chunks_concurrently"
  /\ i <= call.n
  /\ call.chunk[i] = "queued"
  /\ \A j \in 1..(i - 1) : call.chunk[j] # "queued"
  /\ Cardinality(InProgress(call)) < max_workers
  /\ call' = [call EXCEPT !.chunk[i] = "running"]
  /\ UNCHANGED <<pipelineVars, stageVars, mainVars, tracker>>

\* _transcribe_chunk_sync returns in its worker thread, or the future ends
\* with an exception
PC_ChunkEnds(i) ==
  /\ call.fn = "process_chunks_concurrently"
  /\ i <= call.n
  /\ call.chunk[i] = "running"
  /\ \E o \in ChunkOutcomes : call' = [call EXCEPT !.chunk[i] = o]
  /\ UNCHANGED <<pipelineVars, stageVars, mainVars, tracker>>

\* asyncio.gather(*tasks, return_exceptions=True) returns when every future
\* is done; then _handle_transcription_results
PC_Gather ==
  /\ call.fn = "process_chunks_concurrently"
  /\ ~call.done
  /\ call.submitted = call.n
  /\ \A i \in 1..call.n : call.chunk[i] \in ChunkOutcomes
  /\ call' = [call EXCEPT
                !.done = TRUE,
                !.result = handle_transcription_results(
                             [i \in 1..call.n |->
                                transcribe_chunk_sync(i, call.chunk[i])])]
  /\ UNCHANGED <<pipelineVars, stageVars, mainVars, tracker>>

NextPool ==
  \/ PC_Call
  \/ PC_Submit
  \/ \E i \in 1..PoolChunks : PC_WorkerTakes(i) \/ PC_ChunkEnds(i)
  \/ PC_Gather

SpecPool == InitServices /\ [][NextPool]_vars

\* the loop thread and the worker threads run, and every call of the speech
\* API returns or raises
FairPool ==
  /\ WF_vars(PC_Submit)
  /\ WF_vars(\E i \in 1..PoolChunks : PC_WorkerTakes(i))
  /\ WF_vars(\E i \in 1..PoolChunks : PC_ChunkEnds(i))
  /\ WF_vars(PC_Gather)

SpecPoolFair == SpecPool /\ FairPool

\* every chunk has its line: its text or a placeholder
AllChunksSettled ==
  /\ call.fn = "process_chunks_concurrently"
  /\ call.done
  /\ Len(call.result) = call.n
  /\ \A i \in 1..call.n :
       \/ call.result[i] = <<Word(i), NL>>
       \/ \E p \in Placeholders : call.result[i] = <<p, NL>>

\* C35: within one transcription unit at most max_workers = 4 chunk
\* transcriptions are in progress at any time, and every chunk of the unit
\* eventually has its text or a placeholder.
C35_AtMostFourChunksAtOnce ==
  /\ [](call.fn = "process_chunks_concurrently"
          => Cardinality(InProgress(call)) <= max_workers)
  /\ (call.fn = "process_chunks_concurrently") ~> AllChunksSettled

\* four chunks in progress while a fifth waits in the pool's queue
C35_Witness ==
  /\ call.fn = "process_chunks_concurrently"
  /\ Cardinality(InProgress(call)) = max_workers
  /\ \E i \in 1..call.n : call.chunk[i] = "queued"


\* C36: when a discovery run has ended, the ids for which it enqueued a
\* download message are the ids whose row it committed, and the count it
\* reports is their number.
C36_MessagesMatchRowsAndCount ==
  \A j \in DOMAIN disc :
    disc[j].pc = "done"
      => /\ disc[j].msgs = disc[j].rows
         /\ disc[j].count = Cardinality(disc[j].rows)


\* ------------------------------------------------------------------
\* _is_video_valid, in the discovery service and in VideoDiscoverer
\* ------------------------------------------------------------------

\* Durations are seconds, maximum lengths are minutes; None is the absent
\* value of either.
MaxDuration == 125
MaxLengthMinutes == 2
None == -1
Durations == {None} \cup 0..MaxDuration
MaxLengths == {None} \cup 0..MaxLengthMinutes

\* (duration / 60.0) > float(max_length): the quotient in minutes exceeds
\* the limit when its whole part does, or equals it with seconds left over.
is_too_long(duration, max_length) ==
  \/ duration \div 60 > max_length
  \/ duration \div 60 = max_length /\ duration % 60 > 0

is_video_valid_LimitForAll(video_details, max_length, apply_max_length_for_captionless_only) ==
  LET duration == video_details.duration IN
  IF duration = None THEN FALSE
  ELSE IF max_length = None THEN TRUE
  ELSE IF is_too_long(duration, max_length) THEN FALSE
  ELSE TRUE

\* services/discovery_service/app.py, _is_video_valid.
is_video_valid(video_details, max_length, apply_max_length_for_captionless_only) ==
  LET duration == video_details.duration IN
  IF duration = None THEN FALSE
  ELSE IF max_length = None THEN TRUE
  ELSE IF is_too_long(duration, max_length)
       THEN IF apply_max_length_for_captionless_only /\ video_details.has_captions
            THEN TRUE
            ELSE FALSE
  ELSE TRUE

\* pipeline/VideoDiscoverer.py, VideoDiscoverer._is_video_valid.
VideoDiscoverer_is_video_valid(video_details, max_length, apply_max_length_for_captionless_only) ==
  LET duration == video_details.duration IN
  IF duration = None THEN FALSE
  ELSE IF max_length = None THEN TRUE
  ELSE IF is_too_long(duration, max_length)
       THEN IF apply_max_length_for_captionless_only /\ video_details.has_captions
            THEN TRUE
            ELSE FALSE
  ELSE TRUE

\* The details fetch_video_details returns, as far as validity reads them.
VideoDetails == [duration : Durations, has_captions : BOOLEAN]

Call_is_video_valid ==
  /\ call = NoCall
  /\ \E video_details \in VideoDetails, max_length \in MaxLengths,
        apply_max_length_for_captionless_only \in BOOLEAN :
       call' = [fn |-> "is_video_valid", video_details |-> video_details,
                max_length |-> max_length,
                captionless_only |-> apply_max_length_for_captionless_only,
                result |-> is_video_valid(video_details, max_length,
                                          apply_max_length_for_captionless_only),
                compared |-> FALSE, other |-> FALSE]
  /\ UNCHANGED <<pipelineVars, stageVars, mainVars, tracker>>

Call_VideoDiscoverer_is_video_valid ==
  /\ call.fn = "is_video_valid"
  /\ ~call.compared
  /\ call' = [call EXCEPT !.compared = TRUE,
                          !.other = VideoDiscoverer_is_video_valid(
                                      call.video_details, call.max_length,
                                      call.captionless_only)]
  /\ UNCHANGED <<pipelineVars, stageVars, mainVars, tracker>>

NextValidity ==
  \/ Call_is_video_valid
  \/ Call_VideoDiscoverer_is_video_valid

SpecValidity == InitServices /\ [][NextValidity]_vars

\* C37: a candidate of unknown duration is rejected; with no maximum length
\* every candidate of known duration is accepted; otherwise a candidate is
\* accepted exactly when its duration is at most 60 * max_length, or the
\* limit applies to captionless videos only and the candidate has captions;
\* and both functions return the same result on the same input.
C37_ValidityRule ==
  call.fn = "is_video_valid"
    => LET d == call.video_details.duration
           m == call.max_length
       IN /\ d = None => call.result = FALSE
          /\ d # None /\ m = None => call.result = TRUE
          /\ d # None /\ m # None
               => (call.result = TRUE
                     <=> \/ d <= 60 * m
                         \/ call.captionless_only /\ call.video_details.has_captions)
          /\ call.compared => call.other = call.result

\* A candidate over the limit, with captions, accepted by both functions
\* because the limit applies to captionless videos only.
C37_Witness ==
  /\ call.fn = "is_video_valid"
  /\ call.compared
  /\ call.max_length # None
  /\ call.video_details.duration > 60 * call.max_length
  /\ call.video_details.has_captions
  /\ call.captionless_only
  /\ call.result = TRUE


\* ------------------------------------------------------------------
\* pipeline/AgentSummarizer.py: tokens, chunks and recursive summaries
\* ------------------------------------------------------------------

\* A text is a sequence of characters.  The encoding works on bytes: the
\* plain characters and the space are one token each, the wide character "W"
\* (a character outside the encoding's single-token range) is the two tokens
\* "w1" "w2", and the replacement character "?" is the token "r".
PlainChars == {"a", "b"}
WideChar == "W"
ReplacementChar == "?"
Space == " "

\* Token counts are scaled: the size budget of the summarizer is 3000 tokens
\* in the source and a few tokens here.
CHUNK_TARGET_SIZE == 2

\* self.encoding.encode(text)
RECURSIVE encode(_)
encode(text) ==
  IF Len(text) = 0 THEN <<>>
  ELSE LET c == Head(text) IN
       (IF c = WideChar THEN <<"w1", "w2">>
        ELSE IF c = ReplacementChar THEN <<"r">>
        ELSE IF c = Space THEN <<"s">>
        ELSE <<c>>) \o encode(Tail(text))

\* self.encoding.decode(tokens): the bytes of the tokens are decoded with
\* errors="replace", so half of a wide character becomes the replacement
\* character.
RECURSIVE decode(_)
decode(tokens) ==
  IF Len(tokens) = 0 THEN <<>>
  ELSE LET t == Head(tokens) IN
       IF t = "w1" /\ Len(tokens) > 1 /\ tokens[2] = "w2"
       THEN <<WideChar>> \o decode(Tail(Tail(tokens)))
       ELSE (IF t \in {"w1", "w2", "r"} THEN <<ReplacementChar>>
             ELSE IF t = "s" THEN <<Space>>
             ELSE <<t>>) \o decode(Tail(tokens))

\* OpenAISummarizerAgent._get_token_count
get_token_count(text) == Len(encode(text))

\* tokens[start:end] of Python, start counted from 0
Slice(tokens, start, end) ==
  SubSeq(tokens, start + 1, IF end < Len(tokens) THEN end ELSE Len(tokens))

\* The while loop of _split_text_into_chunks, from position start on.
RECURSIVE SplitFrom(_, _)
SplitFrom(tokens, start) ==
  IF start < Len(tokens)
  THEN LET end == start + CHUNK_TARGET_SIZE
           chunk_tokens == Slice(tokens, start, end)
       IN <<decode(chunk_tokens)>> \o SplitFrom(tokens, end)
  ELSE <<>>

\* OpenAISummarizerAgent._split_text_into_chunks
split_text_into_chunks(text) == SplitFrom(encode(text), 0)

\* The transcriptions given to the summarizer.
MaxText == 4
InputChars == PlainChars \cup {WideChar}
InputTexts == UNION {[1..n -> InputChars] : n \in 0..MaxText}

Call_split_text_into_chunks ==
  /\ call = NoCall
  /\ \E text \in InputTexts :
       call' = [fn |-> "split_text_into_chunks", text |-> text,
                chunks |-> split_text_into_chunks(text)]
  /\ UNCHANGED <<pipelineVars, stageVars, mainVars, tracker>>

\* The token sequences of the chunks, one after the other.
RECURSIVE TokensOf(_)
TokensOf(chunks) ==
  IF Len(chunks) = 0 THEN <<>>
  ELSE encode(Head(chunks)) \o TokensOf(Tail(chunks))

CeilDiv(n, k) == (n + k - 1) \div k


\* What one _summarize_text call gives back: None when the API call raised,
\* otherwise the content of the response, which may be empty.
NoSummary == [kind |-> "None", text |-> <<>>]
NotReturned == [kind |-> "pending", text |-> <<>>]
MaxSummary == 2
SummaryTexts ==
  {[i \in 1..n |-> IF i % 2 = 1 THEN "a" ELSE "b"] : n \in 0..MaxSummary}
summarize_text == {NoSummary} \cup {[kind |-> "str", text |-> s] : s \in SummaryTexts}

\* " ".join(summaries)
RECURSIVE join_with_space(_)
join_with_space(kept) ==
  IF Len(kept) = 0 THEN <<>>
  ELSE IF Len(kept) = 1 THEN Head(kept)
  ELSE Head(kept) \o <<Space>> \o join_with_space(Tail(kept))

\* The loop over the gathered results of _recursive_summarize: a result is
\* kept when it is truthy, that is neither None nor the empty string.
RECURSIVE collect_summaries(_)
collect_summaries(results) ==
  IF Len(results) = 0 THEN <<>>
  ELSE (IF Head(results).kind = "str" /\ Len(Head(results).text) > 0
        THEN <<Head(results).text>> ELSE <<>>)
       \o collect_summaries(Tail(results))

\* The longest text a level of the recursion is followed for.
MaxTokens == 2 * MaxText

\* Whether a result has strictly fewer tokens than the text the call was given.
Shrinks(r, text) ==
  r.kind = "str" => get_token_count(r.text) < get_token_count(text)

\* summary_call -> _recursive_summarize(transcription)
RS_Call ==
  /\ call = NoCall
  /\ \E text \in InputTexts :
       call' = [fn |-> "recursive_summarize", pc |-> "enter", text |-> text,
                chunks |-> <<>>, results |-> <<>>, shrinking |-> TRUE,
                recursed |-> FALSE, done |-> FALSE, result |-> NotReturned]
  /\ UNCHANGED <<pipelineVars, stageVars, mainVars, tracker>>

\* _recursive_summarize up to the tasks it creates: a text within the budget
\* goes to one API call, a longer one is split and one task per chunk starts.
RS_Enter ==
  /\ call.fn = "recursive_summarize"
  /\ call.pc = "enter"
  /\ LET token_count == get_token_count(call.text) IN
     IF token_count <= CHUNK_TARGET_SIZE
     THEN call' = [call EXCEPT !.pc = "single"]
     ELSE LET chunks == split_text_into_chunks(call.text) IN
          call' = [call EXCEPT !.pc = "gather", !.chunks = chunks,
                               !.results = [i \in 1..Len(chunks) |-> NotReturned]]
  /\ UNCHANGED <<pipelineVars, stageVars, mainVars, tracker>>

\* return await self._summarize_text(text, prompt)
RS_Single ==
  /\ call.fn = "recursive_summarize"
  /\ call.pc = "single"
  /\ \E r \in summarize_text :
       call' = [call EXCEPT !.pc = "returned", !.done = TRUE, !.result = r,
                            !.results = <<r>>,
                            !.shrinking = @ /\ Shrinks(r, call.text)]
  /\ UNCHANGED <<pipelineVars, stageVars, mainVars, tracker>>

\* The task of chunk i ends; the tasks run concurrently and end in any order.
RS_ChunkReturns(i) ==
  /\ call.fn = "recursive_summarize"
  /\ call.pc = "gather"
  /\ i \in 1..Len(call.results)
  /\ call.results[i] = NotReturned
  /\ \E r \in summarize_text :
       call' = [call EXCEPT !.results[i] = r,
                            !.shrinking = @ /\ Shrinks(r, call.chunks[i])]
  /\ UNCHANGED <<pipelineVars, stageVars, mainVars, tracker>>

AllReturned == \A i \in 1..Len(call.results) : call.results[i] # NotReturned

RS_Gather_SameText ==
  /\ call.fn = "recursive_summarize"
  /\ call.pc = "gather"
  /\ AllReturned
  /\ LET kept == collect_summaries(call.results) IN
     IF Len(kept) = 0
     THEN call' = [call EXCEPT !.pc = "returned", !.done = TRUE,
                               !.result = NoSummary]
     ELSE LET combined_summary == join_with_space(kept) IN
          /\ get_token_count(combined_summary) <= MaxTokens
          /\ call' = [call EXCEPT !.pc = "enter", !.text = call.text,
                                  !.recursed = TRUE]
  /\ UNCHANGED <<pipelineVars, stageVars, mainVars, tracker>>

\* asyncio.gather returns the results in chunk order; the kept kept are
\* joined and the function calls itself on the joined text, or returns None
\* when none is kept.
RS_Gather ==
  /\ call.fn = "recursive_summarize"
  /\ call.pc = "gather"
  /\ AllReturned
  /\ LET kept == collect_summaries(call.results) IN
     IF Len(kept) = 0
     THEN call' = [call EXCEPT !.pc = "returned", !.done = TRUE,
                               !.result = NoSummary]
     ELSE LET combined_summary == join_with_space(kept) IN
          /\ get_token_count(combined_summary) <= MaxTokens
          /\ call' = [call EXCEPT !.pc = "enter", !.text = combined_summary,
                                  !.recursed = TRUE]
  /\ UNCHANGED <<pipelineVars, stageVars, mainVars, tracker>>

MaxChunkCount == MaxTokens

NextSummarizer ==
  \/ Call_split_text_into_chunks
  \/ RS_Call
  \/ RS_Enter
  \/ RS_Single
  \/ \E i \in 1..MaxChunkCount : RS_ChunkReturns(i)
  \/ RS_Gather

SpecSummarizer == InitServices /\ [][NextSummarizer]_vars

\* Every API call returns and the event loop runs the coroutine on.
FairSummarizer ==
  /\ WF_vars(RS_Enter)
  /\ WF_vars(RS_Single)
  /\ WF_vars(\E i \in 1..MaxChunkCount : RS_ChunkReturns(i))
  /\ WF_vars(RS_Gather)

SpecSummarizerFair == SpecSummarizer /\ FairSummarizer


\* C40: for a text of n tokens _split_text_into_chunks returns exactly
\* ceil(n / CHUNK_TARGET_SIZE) chunks, none empty and none of more than
\* CHUNK_TARGET_SIZE tokens, whose token sequences one after the other are
\* the token sequence of the text; for n = 0 it returns no chunk.
C40_ChunksPartitionTheTokens ==
  call.fn = "split_text_into_chunks"
    => LET n == get_token_count(call.text) IN
       /\ Len(call.chunks) = CeilDiv(n, CHUNK_TARGET_SIZE)
       /\ \A i \in 1..Len(call.chunks) :
            /\ Len(call.chunks[i]) > 0
            /\ get_token_count(call.chunks[i]) <= CHUNK_TARGET_SIZE
       /\ TokensOf(call.chunks) = encode(call.text)
       /\ n = 0 => call.chunks = <<>>


\* The texts of the results that did not fail, in chunk order.
RECURSIVE NotFailed(_)
NotFailed(results) ==
  IF Len(results) = 0 THEN <<>>
  ELSE (IF Head(results).kind = "None" THEN <<>> ELSE <<Head(results).text>>)
       \o NotFailed(Tail(results))

\* The step that ends a level of _recursive_summarize.
LevelEnds ==
  /\ call.fn = "recursive_summarize"
  /\ call.pc \in {"single", "gather"}
  /\ call'.pc \in {"enter", "returned"}

ReturnsNone == call'.pc = "returned" /\ call'.result = NoSummary

\* C38: over the budget, a level leaves out the chunks whose summary failed
\* and joins the other chunk summaries in chunk order; it returns None exactly
\* when every chunk summary of the level failed.  Within the budget the
\* function returns None exactly when its single call failed.
C38_FailedChunksOmittedRestMerged ==
  [][LevelEnds =>
       /\ ReturnsNone <=> \A i \in 1..Len(call'.results) :
                            call'.results[i].kind = "None"
       /\ call.pc = "gather" /\ ~ReturnsNone
            => call'.text = join_with_space(NotFailed(call.results))]_vars


\* C39: a call of _recursive_summarize returns, whenever every API call it
\* makes gives back a summary of strictly fewer tokens than the text it was
\* given.
C39_RecursionTerminates ==
  (call.fn = "recursive_summarize")
    ~> (call.fn = "recursive_summarize" /\ (call.done \/ ~call.shrinking))

\* A call that went through a chunked level with shrinking summaries only
\* and returned a summary.
C39_Witness ==
  /\ call.fn = "recursive_summarize"
  /\ call.done
  /\ call.shrinking
  /\ call.recursed
  /\ call.result.kind = "str"
====
